---- MODULE Spec2Model ----
(***************************************************************************)
(* The view-state machines of the Azure DevOps terminal dashboard.         *)
(*                                                                         *)
(* The repository holds two bubbletea programs:                            *)
(*   - the dashboard of cmd/main.go (package internal/ui: pull requests,   *)
(*     builds, PR details, changed files, file diff, build logs), and      *)
(*   - the pipeline list of main.go (package ui: pipeline list and         *)
(*     pipeline detail).                                                   *)
(* A run executes one of them; the variable app says which.  Each program  *)
(* is a bubbletea model: Update is applied to one message at a time and    *)
(* returns the new model and the commands to start.  A started command is  *)
(* in flight until it delivers its one completion message.                 *)
(*                                                                         *)
(* The list components (bubbles list.Model) are modelled by their items    *)
(* and their cursor, for a terminal tall enough to show every item on one  *)
(* page, so that Index() is the cursor.  Viewport geometry is left out.    *)
(***************************************************************************)
EXTENDS Integers, Sequences, FiniteSets, Bags, TLC

VARIABLES
    app,        \* "dashboard" (cmd/main.go) or "pipelines" (main.go)
    running,    \* FALSE once the runtime has handled the message of tea.Quit
    m,          \* the dashboard's Model struct
    pm,         \* the pipeline list's Model struct
    inflight,   \* bag of the commands started and not yet completed
    started,    \* number of commands started so far, kept in the worlds
                \* whose runs it bounds
    ticks,      \* number of scheduled ticks not yet delivered
    world       \* what the remote service holds

vars == <<app, running, m, pm, inflight, started, ticks, world>>

(***************************************************************************)
(* Bounds of the model.                                                    *)
(***************************************************************************)
MaxItems == 2       \* items the service holds for one configured pair at most
MaxFiles == 2       \* changed files a pull request has at most
MaxStarted == 3     \* commands started in a run at most
MaxPending == 2     \* fetches in flight at a time in the runs of any length
RefreshInterval == 2    \* cfg.RefreshInterval, in tick periods
MaxBuilds == 2      \* builds the pipeline list's GetBuilds returns at most
MaxFileStarted == 4 \* commands started in the longer runs of SpecFiles at most
LogProjectsN == 3   \* configured pipeline projects in SpecLogs
MaxSegments == 2    \* log segments a build has in one project at most

(***************************************************************************)
(* Configuration: the watched (project, repository) pairs and the watched  *)
(* (project, pipeline) pairs.  A pair is named by its position: pull       *)
(* request pairs first, pipeline pairs after them.                         *)
(***************************************************************************)
PullRequestsCfg == <<"ProjA/RepoA">>
PipelinesCfg == <<"ProjA/CI">>

NumPR == Len(PullRequestsCfg)
NumPL == Len(PipelinesCfg)

\* a nil pointer, an empty path
nil == 0

Min(a, b) == IF a < b THEN a ELSE b
Max(a, b) == IF a > b THEN a ELSE b

(***************************************************************************)
(* Errors.  An error is the text fmt.Errorf builds: it names the command   *)
(* that failed and, for a full refresh, the configured pair it failed for  *)
(* ("failed to load PRs for <project>/<repository>: <cause>").  The other  *)
(* commands' texts name no pull request, path or build.                    *)
(***************************************************************************)
NoErr == [op |-> "nil", pair |-> 0]
Err(op, pair) == [op |-> op, pair |-> pair]

(***************************************************************************)
(* Commands.                                                               *)
(***************************************************************************)
Cmd(op, id, file) == [op |-> op, id |-> id, file |-> file]
loadDataCmd == Cmd("loadData", 0, 0)
loadPRFilesCmd(pr) == Cmd("loadPRFiles", pr, 0)
loadFileDiffCmd(pr, filePath) == Cmd("loadFileDiff", pr, filePath)
loadBuildLogsCmd(build) == Cmd("loadBuildLogs", build, 0)

RECURSIVE SeqToBag(_)
SeqToBag(s) == IF s = <<>> THEN EmptyBag ELSE SetToBag({Head(s)}) (+) SeqToBag(Tail(s))

(***************************************************************************)
(* Messages.  One record shape for all of them; the fields a message type  *)
(* does not have stay at their zero value.                                 *)
(***************************************************************************)
ZeroMsg ==
    [type |-> "none", key |-> "", pullRequests |-> <<>>, builds |-> <<>>,
     files |-> <<>>, diff |-> <<>>, filePath |-> nil, logs |-> <<>>,
     height |-> 0, err |-> NoErr]

\* tea.WindowSizeMsg
WindowSizeMsg(height) == [ZeroMsg EXCEPT !.type = "WindowSizeMsg", !.height = height]

KeyMsg(k) == [ZeroMsg EXCEPT !.type = "KeyMsg", !.key = k]
TickMsg == [ZeroMsg EXCEPT !.type = "TickMsg"]

Keys == {"q", "r", "tab", "enter", "h", "up", "down", "g", "c", "esc"}

(***************************************************************************)
(* bubbles list.Model: items and cursor.                                   *)
(***************************************************************************)
NewList == [items |-> <<>>, cursor |-> 0]

Index(l) == l.cursor

\* SetItems replaces the items and leaves the cursor where it is.
SetItems(l, items) == [l EXCEPT !.items = items]

\* list.Model.Update: the key bindings of the browsing state, then the
\* cursor is brought back into bounds, whatever the message was.
ListUpdate(l, ms) ==
    LET CursorDown(x) ==
            LET n == Len(x.items)
                c == x.cursor + 1
            IN  [x EXCEPT !.cursor = IF c < n THEN c ELSE IF c > n THEN 0 ELSE n - 1]
        CursorUp(x) == [x EXCEPT !.cursor = Max(x.cursor - 1, 0)]
        \* the end of handleBrowsing: keep the cursor on the page
        KeepInBounds(x) ==
            IF x.cursor > Len(x.items) - 1
            THEN [x EXCEPT !.cursor = Max(0, Len(x.items) - 1)]
            ELSE x
    IN  KeepInBounds(
            IF ms.type # "KeyMsg" THEN l
            ELSE IF ms.key = "down" THEN CursorDown(l)
            ELSE IF ms.key = "up" THEN CursorUp(l)
            ELSE IF ms.key = "g" THEN [l EXCEPT !.cursor = 0]
            ELSE l)

\* list.Model.Update returns tea.Quit for the list's own quit binding
ListQuits(ms) == ms.type = "KeyMsg" /\ ms.key = "esc"


(***************************************************************************)
(* bubbles viewport.Model: the content, the number of its lines, the       *)
(* height of the window on it and the line the window starts at.           *)
(***************************************************************************)
NewViewport == [content |-> <<>>, lines |-> 0, Height |-> 0, YOffset |-> 0]

maxYOffset(v) == Max(0, v.lines - v.Height)

\* SetContent with a content of the given number of lines; a window below
\* the last line goes to the bottom
SetContent(v, content, lines) ==
    LET set == [v EXCEPT !.content = content, !.lines = lines]
    IN  IF set.YOffset > lines - 1 THEN [set EXCEPT !.YOffset = maxYOffset(set)] ELSE set

\* the line keys of viewport.Model.Update
ViewportUpdate(v, ms) ==
    IF ms.type # "KeyMsg" THEN v
    ELSE IF ms.key = "down"
    THEN IF v.YOffset >= maxYOffset(v) \/ v.lines = 0 THEN v
         ELSE [v EXCEPT !.YOffset = Min(@ + 1, maxYOffset(v))]
    ELSE IF ms.key = "up"
    THEN IF v.YOffset <= 0 THEN v ELSE [v EXCEPT !.YOffset = Max(@ - 1, 0)]
    ELSE v

(***************************************************************************)
(* The dashboard (package internal/ui).                                    *)
(*                                                                         *)
(* A pull request or build is named by its identifier.  selectedPR and     *)
(* selectedBuild are pointers into the slice that was current when enter   *)
(* was pressed; a refresh assigns a new slice and leaves the old one       *)
(* alone, so they are modelled by the identifier they point at.            *)
(* sinceLastUpdate is time.Since(m.lastUpdate) in tick periods, counted    *)
(* up to RefreshInterval; the zero lastUpdate of NewModel is longer ago    *)
(* than any interval.  A diff is named by the pull request and path it was *)
(* computed for, a log bundle by its build and the project it came from.   *)
(***************************************************************************)
NewModel ==
    [view |-> "Dashboard",
     pullRequests |-> <<>>,
     builds |-> <<>>,
     prList |-> NewList,
     buildList |-> NewList,
     fileList |-> NewList,
     diffViewport |-> NewViewport,
     logsViewport |-> NewViewport,
     prDetailsViewport |-> NewViewport,
     selectedPR |-> nil,
     selectedBuild |-> nil,
     prFiles |-> <<>>,
     currentDiff |-> <<>>,
     currentFilePath |-> nil,
     buildLogs |-> <<>>,
     loading |-> TRUE,
     loadingLogs |-> FALSE,
     err |-> NoErr,
     sinceLastUpdate |-> RefreshInterval,
     autoRefresh |-> TRUE,
     activeTab |-> 0]

\* what Update returns: the model, the commands to start, whether a tick is
\* scheduled, whether tea.Quit is among the commands
Result(mm, cmds) == [m |-> mm, cmds |-> cmds, tick |-> FALSE, quit |-> FALSE]

updateLists(mm) ==
    [mm EXCEPT !.prList = SetItems(@, mm.pullRequests),
               !.buildList = SetItems(@, mm.builds)]

\* updateFileList that leaves the file list component as it was
updateFileList_KeepsItems(mm) == mm

updateFileList(mm) == [mm EXCEPT !.fileList = SetItems(@, mm.prFiles)]

\* the text loadBuildLogs returns when no project has log content
NoLogsAvailable == <<0>>

\* the number of lines of a diff or of a log bundle of the service
LineCount(content) == IF content = NoLogsAvailable THEN 1 ELSE world.lines

\* case tea.WindowSizeMsg, with updateSizes
WindowSize(mm, ms) ==
    [mm EXCEPT !.diffViewport.Height = ms.height - 6,
               !.logsViewport.Height = ms.height - 6,
               !.prDetailsViewport.Height = ms.height - 8]

\* the update of the active component with the file list fed in the
\* FileDiff view too
UpdateActive_AlsoFileList(mm, ms) ==
    CASE mm.view = "Dashboard" /\ mm.activeTab = 0 ->
            [mm EXCEPT !.prList = ListUpdate(@, ms)]
      [] mm.view = "Dashboard" /\ mm.activeTab # 0 ->
            [mm EXCEPT !.buildList = ListUpdate(@, ms)]
      [] mm.view = "PRDetails" ->
            [mm EXCEPT !.prDetailsViewport = ViewportUpdate(@, ms)]
      [] mm.view = "PRFiles" ->
            [mm EXCEPT !.fileList = ListUpdate(@, ms)]
      [] mm.view = "FileDiff" ->
            [mm EXCEPT !.diffViewport = ViewportUpdate(@, ms),
                       !.fileList = ListUpdate(@, ms)]
      [] mm.view = "BuildLogs" ->
            [mm EXCEPT !.logsViewport = ViewportUpdate(@, ms)]
      [] OTHER -> mm

\* "Update active component based on view": the message goes to the list
\* or viewport of the current view
UpdateActive(mm, ms) ==
    CASE mm.view = "Dashboard" /\ mm.activeTab = 0 ->
            [mm EXCEPT !.prList = ListUpdate(@, ms)]
      [] mm.view = "Dashboard" /\ mm.activeTab # 0 ->
            [mm EXCEPT !.buildList = ListUpdate(@, ms)]
      [] mm.view = "PRDetails" ->
            [mm EXCEPT !.prDetailsViewport = ViewportUpdate(@, ms)]
      [] mm.view = "PRFiles" ->
            [mm EXCEPT !.fileList = ListUpdate(@, ms)]
      [] mm.view = "FileDiff" ->
            [mm EXCEPT !.diffViewport = ViewportUpdate(@, ms)]
      [] mm.view = "BuildLogs" ->
            [mm EXCEPT !.logsViewport = ViewportUpdate(@, ms)]
      [] OTHER -> mm

ActiveQuits(mm, ms) == mm.view \in {"Dashboard", "PRFiles"} /\ ListQuits(ms)

\* the tail of Update, reached by every branch that does not return early
Finish(mm, ms, cmds) ==
    [m |-> UpdateActive(mm, ms), cmds |-> cmds, tick |-> FALSE,
     quit |-> ActiveQuits(mm, ms)]

\* handleEnter without the emptiness check of the pull request tab: enter on
\* an empty list opens the PR details of no pull request
handleEnter_Unguarded(mm) ==
    CASE mm.view = "Dashboard" ->
            IF mm.activeTab = 0
            THEN LET idx == Index(mm.prList)
                 IN  IF idx >= 0 /\ idx < Len(mm.pullRequests)
                     THEN Result([mm EXCEPT !.selectedPR = mm.pullRequests[idx + 1],
                                            !.view = "PRDetails"], <<>>)
                     ELSE Result([mm EXCEPT !.view = "PRDetails"], <<>>)
            ELSE IF mm.activeTab = 1 /\ Len(mm.builds) > 0
            THEN LET idx == Index(mm.buildList)
                 IN  IF idx >= 0 /\ idx < Len(mm.builds)
                     THEN Result([mm EXCEPT !.selectedBuild = mm.builds[idx + 1],
                                            !.loadingLogs = TRUE],
                                 <<loadBuildLogsCmd(mm.builds[idx + 1])>>)
                     ELSE Result(mm, <<>>)
            ELSE Result(mm, <<>>)
      [] mm.view = "PRDetails" ->
            IF mm.selectedPR # nil
            THEN Result(mm, <<loadPRFilesCmd(mm.selectedPR)>>)
            ELSE Result(mm, <<>>)
      [] mm.view = "PRFiles" ->
            IF Len(mm.prFiles) > 0
            THEN LET idx == Index(mm.fileList)
                 IN  IF idx >= 0 /\ idx < Len(mm.prFiles) /\ mm.selectedPR # nil
                     THEN Result(mm, <<loadFileDiffCmd(mm.selectedPR, mm.prFiles[idx + 1])>>)
                     ELSE Result(mm, <<>>)
            ELSE Result(mm, <<>>)
      [] OTHER -> Result(mm, <<>>)

handleEnter(mm) ==
    CASE mm.view = "Dashboard" ->
            IF mm.activeTab = 0 /\ Len(mm.pullRequests) > 0
            THEN LET idx == Index(mm.prList)
                 IN  IF idx >= 0 /\ idx < Len(mm.pullRequests)
                     THEN Result([mm EXCEPT !.selectedPR = mm.pullRequests[idx + 1],
                                            !.view = "PRDetails"], <<>>)
                     ELSE Result(mm, <<>>)
            ELSE IF mm.activeTab = 1 /\ Len(mm.builds) > 0
            THEN LET idx == Index(mm.buildList)
                 IN  IF idx >= 0 /\ idx < Len(mm.builds)
                     THEN Result([mm EXCEPT !.selectedBuild = mm.builds[idx + 1],
                                            !.loadingLogs = TRUE],
                                 <<loadBuildLogsCmd(mm.builds[idx + 1])>>)
                     ELSE Result(mm, <<>>)
            ELSE Result(mm, <<>>)
      [] mm.view = "PRDetails" ->
            IF mm.selectedPR # nil
            THEN Result(mm, <<loadPRFilesCmd(mm.selectedPR)>>)
            ELSE Result(mm, <<>>)
      [] mm.view = "PRFiles" ->
            IF Len(mm.prFiles) > 0
            THEN LET idx == Index(mm.fileList)
                 IN  IF idx >= 0 /\ idx < Len(mm.prFiles) /\ mm.selectedPR # nil
                     THEN Result(mm, <<loadFileDiffCmd(mm.selectedPR, mm.prFiles[idx + 1])>>)
                     ELSE Result(mm, <<>>)
            ELSE Result(mm, <<>>)
      [] OTHER -> Result(mm, <<>>)

\* the back key with the error left on record when leaving PRFiles
GoBack_KeepsError(mm) ==
    CASE mm.view = "PRDetails" -> [mm EXCEPT !.view = "Dashboard", !.err = NoErr]
      [] mm.view = "PRFiles" -> [mm EXCEPT !.view = "PRDetails"]
      [] mm.view = "FileDiff" -> [mm EXCEPT !.view = "PRFiles", !.err = NoErr]
      [] mm.view = "BuildLogs" -> [mm EXCEPT !.view = "Dashboard", !.err = NoErr]
      [] OTHER -> mm

\* the back key with the parent of FileDiff skipped
GoBack_SkipsFiles(mm) ==
    CASE mm.view = "PRDetails" -> [mm EXCEPT !.view = "Dashboard", !.err = NoErr]
      [] mm.view = "PRFiles" -> [mm EXCEPT !.view = "PRDetails", !.err = NoErr]
      [] mm.view = "FileDiff" -> [mm EXCEPT !.view = "PRDetails", !.err = NoErr]
      [] mm.view = "BuildLogs" -> [mm EXCEPT !.view = "Dashboard", !.err = NoErr]
      [] OTHER -> mm

\* the back key with the selection dropped on the return to the Dashboard
GoBack_ClearsSelection(mm) ==
    CASE mm.view = "PRDetails" ->
            [mm EXCEPT !.view = "Dashboard", !.err = NoErr, !.selectedPR = nil]
      [] mm.view = "PRFiles" -> [mm EXCEPT !.view = "PRDetails", !.err = NoErr]
      [] mm.view = "FileDiff" -> [mm EXCEPT !.view = "PRFiles", !.err = NoErr]
      [] mm.view = "BuildLogs" ->
            [mm EXCEPT !.view = "Dashboard", !.err = NoErr, !.selectedBuild = nil]
      [] OTHER -> mm

\* case "h", "left": the view a back key leads to
GoBack(mm) ==
    CASE mm.view = "PRDetails" -> [mm EXCEPT !.view = "Dashboard", !.err = NoErr]
      [] mm.view = "PRFiles" -> [mm EXCEPT !.view = "PRDetails", !.err = NoErr]
      [] mm.view = "FileDiff" -> [mm EXCEPT !.view = "PRFiles", !.err = NoErr]
      [] mm.view = "BuildLogs" -> [mm EXCEPT !.view = "Dashboard", !.err = NoErr]
      [] OTHER -> mm

\* a manual refresh that also returns to the Dashboard
ManualRefresh_ToDashboard(mm) ==
    Result([mm EXCEPT !.loading = TRUE, !.view = "Dashboard"], <<loadDataCmd>>)

\* case "r": manual refresh
ManualRefresh(mm) == Result([mm EXCEPT !.loading = TRUE], <<loadDataCmd>>)

UpdateKey(mm, ms) ==
    CASE ms.key = "q" -> [Result(mm, <<>>) EXCEPT !.quit = TRUE]
      [] ms.key = "r" -> ManualRefresh(mm)
      [] ms.key = "tab" ->
            Finish(IF mm.view = "Dashboard"
                   THEN [mm EXCEPT !.activeTab = (@ + 1) % 2] ELSE mm, ms, <<>>)
      [] ms.key = "enter" -> handleEnter(mm)
      [] ms.key = "h" -> Finish(GoBack(mm), ms, <<>>)
      [] ms.key = "g" ->
            IF \/ mm.view = "BuildLogs" /\ mm.selectedBuild # nil
               \/ mm.view = "PRDetails" /\ mm.selectedPR # nil
            THEN Result(mm, <<>>)       \* openBuildURL, openPRURL: no message
            ELSE Finish(mm, ms, <<>>)
      [] ms.key = "c" ->
            IF mm.view = "PRDetails" /\ mm.selectedPR # nil
            THEN Result(mm, <<>>)       \* clonePRRepo: no message
            ELSE Finish(mm, ms, <<>>)
      [] OTHER -> Finish(mm, ms, <<>>)

\* a refresh condition that ignores the interval
TickDue_EveryTick(mm) == mm.autoRefresh

\* case TickMsg: the refresh that is due, and always the next tick.  The
\* tick arrives one period after it was scheduled.
TickDue(mm) == mm.autoRefresh /\ mm.sinceLastUpdate >= RefreshInterval

\* a tick that also retries at once while an error is on record
UpdateTick_RetriesOnError(mm, ms) ==
    LET t == [mm EXCEPT !.sinceLastUpdate = Min(@ + 1, RefreshInterval)]
    IN  [Finish(t, ms, IF TickDue(t) \/ t.err # NoErr THEN <<loadDataCmd>> ELSE <<>>)
            EXCEPT !.tick = TRUE]

\* a tick that schedules the next tick only when it starts no refresh
UpdateTick_NoTickWithRefresh(mm, ms) ==
    [m |-> [mm EXCEPT !.sinceLastUpdate = IF @ + 1 < RefreshInterval THEN @ + 1
                                          ELSE RefreshInterval],
     cmds |-> IF mm.autoRefresh /\ mm.sinceLastUpdate + 1 >= RefreshInterval
              THEN <<[op |-> "loadData", id |-> 0, file |-> 0]>> ELSE <<>>,
     tick |-> ~(mm.autoRefresh /\ mm.sinceLastUpdate + 1 >= RefreshInterval),
     quit |-> FALSE]

UpdateTick(mm, ms) ==
    LET t == [mm EXCEPT !.sinceLastUpdate = Min(@ + 1, RefreshInterval)]
    IN  [Finish(t, ms, IF TickDue(t) THEN <<loadDataCmd>> ELSE <<>>)
            EXCEPT !.tick = TRUE]

\* DataLoadedMsg with the fetched lists applied whether or not an error came
\* with them
DataLoaded_AppliesOnError(mm, ms) ==
    LET a == [mm EXCEPT !.loading = FALSE, !.sinceLastUpdate = 0]
        b == IF ms.err # NoErr THEN [a EXCEPT !.err = ms.err] ELSE a
    IN  updateLists([b EXCEPT !.pullRequests = ms.pullRequests,
                              !.builds = ms.builds])

\* DataLoadedMsg with the selected pull request taken again from the new
\* list, at the cursor
DataLoaded_Reselects(mm, ms) ==
    LET a == [mm EXCEPT !.loading = FALSE, !.sinceLastUpdate = 0]
    IN  IF ms.err # NoErr
        THEN [a EXCEPT !.err = ms.err]
        ELSE [a EXCEPT !.pullRequests = ms.pullRequests,
                       !.builds = ms.builds,
                       !.prList = [@ EXCEPT !.items = ms.pullRequests],
                       !.buildList = [@ EXCEPT !.items = ms.builds],
                       !.selectedPR =
                           IF @ # 0 /\ mm.prList.cursor < Len(ms.pullRequests)
                           THEN ms.pullRequests[mm.prList.cursor + 1] ELSE @]

\* case DataLoadedMsg
DataLoaded(mm, ms) ==
    LET a == [mm EXCEPT !.loading = FALSE, !.sinceLastUpdate = 0]
    IN  IF ms.err # NoErr
        THEN [a EXCEPT !.err = ms.err]
        ELSE updateLists([a EXCEPT !.pullRequests = ms.pullRequests,
                                   !.builds = ms.builds])

\* case FilesLoadedMsg
FilesLoaded(mm, ms) ==
    IF ms.err # NoErr
    THEN [mm EXCEPT !.err = ms.err, !.view = "PRFiles"]
    ELSE [updateFileList([mm EXCEPT !.err = NoErr, !.prFiles = ms.files])
            EXCEPT !.view = "PRFiles"]

\* case DiffLoadedMsg
DiffLoaded(mm, ms) ==
    IF ms.err # NoErr
    THEN [mm EXCEPT !.err = ms.err]
    ELSE [mm EXCEPT !.err = NoErr, !.currentDiff = ms.diff,
                    !.currentFilePath = ms.filePath,
                    !.diffViewport = SetContent(@, ms.diff, LineCount(ms.diff)),
                    !.view = "FileDiff"]

\* LogsLoadedMsg with loadingLogs left set when the fetch failed
LogsLoaded_KeepsLoadingOnError(mm, ms) ==
    IF ms.err # NoErr
    THEN [mm EXCEPT !.err = ms.err]
    ELSE [mm EXCEPT !.loadingLogs = FALSE,
                    !.buildLogs = ms.logs,
                    !.logsViewport = [@ EXCEPT !.content = ms.logs],
                    !.view = "BuildLogs"]

\* case LogsLoadedMsg
LogsLoaded(mm, ms) ==
    LET a == [mm EXCEPT !.loadingLogs = FALSE]
    IN  IF ms.err # NoErr
        THEN [a EXCEPT !.err = ms.err]
        ELSE [a EXCEPT !.buildLogs = ms.logs,
                       !.logsViewport = SetContent(@, ms.logs, LineCount(ms.logs)),
                       !.view = "BuildLogs"]

Update(mm, ms) ==
    CASE ms.type = "WindowSizeMsg" -> Finish(WindowSize(mm, ms), ms, <<>>)
      [] ms.type = "KeyMsg" -> UpdateKey(mm, ms)
      [] ms.type = "TickMsg" -> UpdateTick(mm, ms)
      [] ms.type = "DataLoadedMsg" -> Finish(DataLoaded(mm, ms), ms, <<>>)
      [] ms.type = "FilesLoadedMsg" -> Finish(FilesLoaded(mm, ms), ms, <<>>)
      [] ms.type = "DiffLoadedMsg" -> Finish(DiffLoaded(mm, ms), ms, <<>>)
      [] ms.type = "LogsLoadedMsg" -> Finish(LogsLoaded(mm, ms), ms, <<>>)
      [] OTHER -> Finish(mm, ms, <<>>)


(***************************************************************************)
(* Model.View: the frame drawn for a model, as what it shows: which screen *)
(* it is, the data on it and the error line on it (NoErr when the frame    *)
(* has none).                                                              *)
(***************************************************************************)
Frame(screen, data, err) == [screen |-> screen, data |-> data, err |-> err]

renderDashboard(mm) ==
    Frame("Dashboard",
          IF mm.activeTab = 0 THEN mm.prList.items ELSE mm.buildList.items,
          mm.err)

renderPRDetails(mm) ==
    IF mm.selectedPR = nil
    THEN Frame("No PR selected", <<>>, NoErr)
    ELSE Frame("PRDetails", <<mm.selectedPR>>, NoErr)

renderPRFiles(mm) == Frame("PRFiles", mm.fileList.items, mm.err)

\* the diff viewport holds the formatted currentDiff
renderFileDiff(mm) == Frame("FileDiff", mm.currentDiff, NoErr)

\* the logs viewport holds buildLogs
renderBuildLogs(mm) ==
    IF mm.loadingLogs
    THEN Frame("Loading logs...", <<>>, NoErr)
    ELSE Frame("BuildLogs", mm.buildLogs, NoErr)

View(mm) ==
    IF mm.loading /\ Len(mm.pullRequests) = 0 /\ Len(mm.builds) = 0
    THEN Frame("Loading data...", <<>>, NoErr)
    ELSE CASE mm.view = "Dashboard" -> renderDashboard(mm)
           [] mm.view = "PRDetails" -> renderPRDetails(mm)
           [] mm.view = "PRFiles" -> renderPRFiles(mm)
           [] mm.view = "FileDiff" -> renderFileDiff(mm)
           [] mm.view = "BuildLogs" -> renderBuildLogs(mm)
           [] OTHER -> Frame("", <<>>, NoErr)

\* the receiver of View when View returns: renderPRDetails sets the content
\* of the details viewport before it draws it
ViewReceiver(mm) ==
    IF mm.loading /\ Len(mm.pullRequests) = 0 /\ Len(mm.builds) = 0 THEN mm
    ELSE IF mm.view = "PRDetails" /\ mm.selectedPR # nil
    THEN [mm EXCEPT !.prDetailsViewport =
                        SetContent(@, <<mm.selectedPR>>, LineCount(<<mm.selectedPR>>))]
    ELSE mm

\* View with a pointer receiver: what it does to its receiver stays
AfterView_PointerReceiver(mm) == ViewReceiver(mm)

\* the model of the program when View has returned.  View and the render
\* functions have value receivers: the receiver is a copy of the struct, and
\* what View assigns to a field of the copy is gone when it returns.  The
\* copy shares with the program's model the storage behind its slices and
\* pointers (the elements of pullRequests, builds and prFiles, the pull
\* request and the build selected): what View writes there stays.
AfterView(mm) ==
    LET shared == {"pullRequests", "builds", "prFiles", "selectedPR", "selectedBuild"}
        receiver == ViewReceiver(mm)
    IN  [field \in DOMAIN mm |-> IF field \in shared THEN receiver[field] ELSE mm[field]]

(***************************************************************************)
(* The remote service.  world says how many pull requests the watched      *)
(* repository has (MaxItems) and how many builds the watched pipeline has  *)
(* (one).  The fetch for a configured pair fails or returns the first n    *)
(* items of the pair's catalogue; the changed files of a pull request are  *)
(* the first n of the paths 1..MaxFiles.  Every diff and every log bundle  *)
(* has world.lines lines, and the terminal is resized to the heights in    *)
(* world.heights: in Worlds every content fits the viewport of a sized     *)
(* terminal, in ScrollWorlds it fits none at the smaller height.           *)
(***************************************************************************)
Worlds == {[prs |-> MaxItems, builds |-> 1, heights |-> {10}, lines |-> 3, files |-> "shared",
            bound |-> "started", commands |-> MaxStarted]}

\* the runs of any length, with at most MaxPending fetches in flight at a
\* time: over a service with one pull request that changes one file, and
\* over a service with one build
LiveWorlds ==
    {[prs |-> 1, builds |-> 0, heights |-> {10}, lines |-> 1, files |-> "single",
      bound |-> "pending", commands |-> MaxPending],
     [prs |-> 0, builds |-> 1, heights |-> {10}, lines |-> 1, files |-> "single",
      bound |-> "pending", commands |-> MaxPending]}

ScrollWorlds == {[prs |-> MaxItems, builds |-> 1, heights |-> {8, 10}, lines |-> 4,
                  files |-> "shared",
                  bound |-> "started", commands |-> MaxStarted]}

\* services in which every pull request changes files of its own: one with
\* MaxItems pull requests, one in which the pipeline has run more than one
\* build, and one with a single pull request and a longer run
FileWorlds ==
    {[prs |-> MaxItems, builds |-> 0, heights |-> {10}, lines |-> 3, files |-> "own",
      bound |-> "started", commands |-> MaxStarted],
     [prs |-> 0, builds |-> MaxBuilds, heights |-> {10}, lines |-> 3, files |-> "own",
      bound |-> "started", commands |-> MaxStarted],
     [prs |-> 1, builds |-> 0, heights |-> {10}, lines |-> 3, files |-> "own",
      bound |-> "started", commands |-> MaxFileStarted]}

Prefix(s, n) == SubSeq(s, 1, n)

Catalogue(w, pair) ==
    [k \in 1..(IF pair <= NumPR THEN w.prs ELSE w.builds) |-> 10 * pair + k]

Failed == [ok |-> FALSE, items |-> <<>>]
Fetched(items) == [ok |-> TRUE, items |-> items]

PairOutcomes(w, pair) ==
    {Failed} \cup {Fetched(Prefix(Catalogue(w, pair), n)) : n \in 0..Len(Catalogue(w, pair))}

\* the outcomes of the fetches of one full refresh, per configured pair
PROutcomes(w) ==
    {out \in [1..NumPR -> UNION {PairOutcomes(w, i) : i \in 1..NumPR}] :
        \A i \in 1..NumPR : out[i] \in PairOutcomes(w, i)}

PLOutcomes(w) ==
    {out \in [1..NumPL -> UNION {PairOutcomes(w, NumPR + j) : j \in 1..NumPL}] :
        \A j \in 1..NumPL : out[j] \in PairOutcomes(w, NumPR + j)}

\* the files the pull request pr changes: the same paths in every pull
\* request, paths of its own, or the one path 1
ChangedFiles(w, pr) ==
    [k \in 1..(IF w.files = "single" THEN 1 ELSE MaxFiles) |->
        IF w.files = "own" THEN 10 * pr + k ELSE k]

FileOutcomes(w, pr) ==
    {Failed} \cup {Fetched(Prefix(ChangedFiles(w, pr), n)) : n \in 0..Len(ChangedFiles(w, pr))}

\* per configured pipeline project: the log list request failed, or it
\* listed log segments, for each of which the content request answered or
\* failed
ProjectLogOutcomes(n) ==
    {Failed} \cup {Fetched(segments) : segments \in UNION {[1..k -> BOOLEAN] : k \in 0..n}}

LogOutcomes == [1..NumPL -> {Failed, Fetched(<<>>), Fetched(<<TRUE>>)}]

(***************************************************************************)
(* The commands of the dashboard (the closures that run outside the        *)
(* message loop) as functions of what the service answers.                 *)
(***************************************************************************)
\* the loop with the first failure ending it
RECURSIVE LoadPairs_StopsAtFailure(_, _, _, _)
LoadPairs_StopsAtFailure(out, i, base, acc) ==
    IF i > Len(out) THEN acc
    ELSE IF ~out[i].ok
    THEN [acc EXCEPT !.lastErr = Err("loadData", base + i),
                     !.calls = Append(@, base + i)]
    ELSE LoadPairs_StopsAtFailure(out, i + 1, base,
                                  [acc EXCEPT !.all = @ \o out[i].items,
                                              !.calls = Append(@, base + i)])

\* one of the two loops of loadData over the outcomes out of a configured
\* list; base is the number of pairs before this list.  calls lists the
\* pairs the client was asked for, in order.
RECURSIVE LoadPairs(_, _, _, _)
LoadPairs(out, i, base, acc) ==
    IF i > Len(out) THEN acc
    ELSE IF ~out[i].ok
    THEN LoadPairs(out, i + 1, base, [acc EXCEPT !.lastErr = Err("loadData", base + i),
                                                 !.calls = Append(@, base + i)])
    ELSE LoadPairs(out, i + 1, base, [acc EXCEPT !.all = @ \o out[i].items,
                                                 !.calls = Append(@, base + i)])

\* the requests loadData makes, in order
loadDataCalls(prOut, plOut) ==
    LoadPairs(prOut, 1, 0, [all |-> <<>>, lastErr |-> NoErr, calls |-> <<>>]).calls
    \o LoadPairs(plOut, 1, Len(prOut), [all |-> <<>>, lastErr |-> NoErr, calls |-> <<>>]).calls

loadData(prOut, plOut) ==
    LET prs == LoadPairs(prOut, 1, 0, [all |-> <<>>, lastErr |-> NoErr, calls |-> <<>>])
        bls == LoadPairs(plOut, 1, Len(prOut),
                         [all |-> <<>>, lastErr |-> prs.lastErr, calls |-> <<>>])
    IN  [ZeroMsg EXCEPT !.type = "DataLoadedMsg",
                        !.pullRequests = prs.all,
                        !.builds = bls.all,
                        !.err = bls.lastErr]

loadPRFiles(pr, out) ==
    IF ~out.ok
    THEN [ZeroMsg EXCEPT !.type = "FilesLoadedMsg", !.err = Err("loadPRFiles", 0)]
    ELSE [ZeroMsg EXCEPT !.type = "FilesLoadedMsg", !.files = out.items]

\* loadFileDiff that returns no message when the request fails
loadFileDiff_SilentOnFailure(pr, filePath, ok) ==
    IF ~ok
    THEN ZeroMsg
    ELSE [ZeroMsg EXCEPT !.type = "DiffLoadedMsg", !.diff = <<pr, filePath>>,
                         !.filePath = filePath]

loadFileDiff(pr, filePath, ok) ==
    IF ~ok
    THEN [ZeroMsg EXCEPT !.type = "DiffLoadedMsg", !.err = Err("loadFileDiff", 0)]
    ELSE [ZeroMsg EXCEPT !.type = "DiffLoadedMsg", !.diff = <<pr, filePath>>,
                         !.filePath = filePath]

\* the loop of loadBuildLogs over the configured pipelines; the text of
\* the segment k of the project i is named 10 * i + k, and the logs are the
\* build followed by the segments written, in the order written
RECURSIVE LogsLoop(_, _, _, _, _)
LogsLoop(build, out, i, lastErr, logs) ==
    IF i > Len(out)
    THEN IF lastErr # NoErr
         THEN [ZeroMsg EXCEPT !.type = "LogsLoadedMsg", !.err = lastErr]
         ELSE [ZeroMsg EXCEPT !.type = "LogsLoadedMsg", !.logs = NoLogsAvailable]
    ELSE IF ~out[i].ok
    THEN LogsLoop(build, out, i + 1, Err("loadBuildLogs", 0), logs)
    ELSE LET buildLogs == out[i].items
             written == SelectSeq([k \in 1..Len(buildLogs) |->
                                      IF buildLogs[k] THEN 10 * i + k ELSE 0],
                                  LAMBDA segment : segment # 0)
         IN  IF logs \o written # <<>>
             THEN [ZeroMsg EXCEPT !.type = "LogsLoadedMsg",
                                  !.logs = <<build>> \o logs \o written]
             ELSE LogsLoop(build, out, i + 1, lastErr, logs \o written)

\* loadBuildLogs that asks the first configured project only
loadBuildLogs_FirstProjectOnly(build, out) ==
    IF ~out[1].ok
    THEN [ZeroMsg EXCEPT !.type = "LogsLoadedMsg", !.err = Err("loadBuildLogs", 0)]
    ELSE IF \E k \in 1..Len(out[1].items) : out[1].items[k]
    THEN [ZeroMsg EXCEPT !.type = "LogsLoadedMsg",
                         !.logs = <<build>> \o SelectSeq([k \in 1..Len(out[1].items) |->
                                                            IF out[1].items[k] THEN 10 + k ELSE 0],
                                                         LAMBDA segment : segment # 0)]
    ELSE [ZeroMsg EXCEPT !.type = "LogsLoadedMsg", !.logs = NoLogsAvailable]

loadBuildLogs(build, out) == LogsLoop(build, out, 1, NoErr, <<>>)

(***************************************************************************)
(* The message loop of the dashboard: one message is consumed per step.    *)
(***************************************************************************)
\* tea.Quit, the command Update returns to end the program; the runtime
\* ends the program at the first quit message it handles, so one pending
\* quit command stands for any number of them
quitCmd == Cmd("tea.Quit", 0, 0)

\* Update is applied to ms, which answers the command done (EmptyBag for an
\* input event or a tick); its commands are started, tea.Quit among them.
\* started records how many, in the worlds whose runs it bounds
Consume(ms, done, tickDone) ==
    LET r == Update(m, ms)
    IN  /\ app = "dashboard" /\ running
        /\ m' = r.m
        /\ inflight' = ((inflight (-) done) (+) SeqToBag(r.cmds))
                            (+) (IF r.quit /\ ~BagIn(quitCmd, inflight)
                                 THEN SetToBag({quitCmd}) ELSE EmptyBag)
        /\ started' = IF world.bound = "started" THEN started + Len(r.cmds) ELSE started
        /\ ticks' = ticks - tickDone + (IF r.tick THEN 1 ELSE 0)
        /\ UNCHANGED <<app, running, pm, world>>

KeyStep(k) == Consume(KeyMsg(k), EmptyBag, 0)

TickStep == ticks > 0 /\ Consume(TickMsg, EmptyBag, 1)

DataStep(ms) ==
    /\ BagIn(loadDataCmd, inflight)
    /\ Consume(ms, SetToBag({loadDataCmd}), 0)

\* the completion of the in-flight command c with message ms
DoneStep(c, ms) ==
    /\ BagIn(c, inflight)
    /\ Consume(ms, SetToBag({c}), 0)

LoadPRFilesCmds == {c \in BagToSet(inflight) : c.op = "loadPRFiles"}
LoadFileDiffCmds == {c \in BagToSet(inflight) : c.op = "loadFileDiff"}
LoadBuildLogsCmds == {c \in BagToSet(inflight) : c.op = "loadBuildLogs"}

Key == \E k \in Keys : KeyStep(k)

\* the runtime reports the size of the terminal, at the start and whenever
\* it changes
Resize == \E height \in world.heights : Consume(WindowSizeMsg(height), EmptyBag, 0)

\* the runtime draws the frame: it calls View, which returns a string
Render ==
    /\ app = "dashboard" /\ running
    /\ \E frame \in {View(m)} : m' = AfterView(m)
    /\ UNCHANGED <<app, running, pm, inflight, started, ticks, world>>

Tick == TickStep

\* the messages a full refresh can deliver
DataMsgs(w) == {loadData(prOut, plOut) : prOut \in PROutcomes(w), plOut \in PLOutcomes(w)}

DataLoadedMsg == \E ms \in DataMsgs(world) : DataStep(ms)

FilesLoadedMsg ==
    \E c \in LoadPRFilesCmds : \E out \in FileOutcomes(world, c.id) : DoneStep(c, loadPRFiles(c.id, out))

DiffLoadedMsg ==
    \E c \in LoadFileDiffCmds, ok \in BOOLEAN : DoneStep(c, loadFileDiff(c.id, c.file, ok))

LogsLoadedMsg ==
    \E c \in LoadBuildLogsCmds, out \in LogOutcomes : DoneStep(c, loadBuildLogs(c.id, out))

(***************************************************************************)
(* The pipeline list (package ui, run by main.go).  A pipeline is named by *)
(* its build identifier; the stages and the log of a pipeline detail are   *)
(* named by the build they were fetched for.  The service holds MaxBuilds  *)
(* builds; GetBuilds fails or returns the first n of them.                 *)
(***************************************************************************)
NewPipelineModel ==
    [pipelines |-> <<>>,
     selectedIndex |-> 0,
     currentView |-> "pipelineListView",
     selectedPipeline |-> nil,
     stages |-> <<>>,
     logs |-> <<>>,
     viewport |-> [NewViewport EXCEPT !.Height = 20],
     loading |-> TRUE,
     err |-> NoErr,
     autoRefresh |-> TRUE]

loadPipelinesCmd == Cmd("loadPipelines", 0, 0)
loadPipelineDetailCmd(buildID) == Cmd("loadPipelineDetail", buildID, 0)

PKeys == {"q", "esc", "r", "up", "down", "enter", "pgup", "pgdown"}

PipelineOutcomes == {Failed} \cup {Fetched([k \in 1..n |-> k]) : n \in 0..MaxBuilds}

\* GetBuild failed; or it succeeded, with or without a timeline and with or
\* without the content of the last log
DetailOutcomes == [ok : BOOLEAN, timeline : BOOLEAN, log : BOOLEAN]

loadPipelines(out) ==
    IF ~out.ok
    THEN [ZeroMsg EXCEPT !.type = "pipelinesLoadedMsg", !.err = Err("loadPipelines", 0)]
    ELSE [ZeroMsg EXCEPT !.type = "pipelinesLoadedMsg", !.builds = out.items]

\* pullRequests carries msg.pipeline, files msg.stages, logs msg.logs
loadPipelineDetail(buildID, out) ==
    IF ~out.ok
    THEN [ZeroMsg EXCEPT !.type = "pipelineDetailLoadedMsg",
                         !.err = Err("loadPipelineDetail", 0)]
    ELSE [ZeroMsg EXCEPT !.type = "pipelineDetailLoadedMsg",
                         !.pullRequests = <<buildID>>,
                         !.files = IF out.timeline THEN <<buildID>> ELSE <<>>,
                         !.logs = IF out.log THEN <<buildID>> ELSE <<>>]

\* the command a refresh starts in the current view, if any
RefreshCmds(p) ==
    IF p.currentView = "pipelineListView" THEN <<loadPipelinesCmd>>
    ELSE IF p.currentView = "pipelineDetailView" /\ p.selectedPipeline # nil
    THEN <<loadPipelineDetailCmd(p.selectedPipeline)>>
    ELSE <<>>

PipelineKey(p, ms) ==
    CASE ms.key = "q" -> [Result(p, <<>>) EXCEPT !.quit = TRUE]
      [] ms.key = "esc" ->
            IF p.currentView = "pipelineDetailView"
            THEN Result([p EXCEPT !.currentView = "pipelineListView",
                                  !.selectedPipeline = nil,
                                  !.stages = <<>>, !.logs = <<>>], <<>>)
            ELSE Result(p, <<>>)
      [] ms.key = "r" ->
            IF RefreshCmds(p) # <<>>
            THEN Result([p EXCEPT !.loading = TRUE], RefreshCmds(p))
            ELSE Result(p, <<>>)
      [] ms.key = "up" ->
            IF p.currentView = "pipelineListView" /\ p.selectedIndex > 0
            THEN Result([p EXCEPT !.selectedIndex = @ - 1], <<>>)
            ELSE IF p.currentView = "pipelineDetailView"
            THEN Result([p EXCEPT !.viewport = ViewportUpdate(@, ms)], <<>>)
            ELSE Result(p, <<>>)
      [] ms.key = "down" ->
            IF p.currentView = "pipelineListView" /\ p.selectedIndex < Len(p.pipelines) - 1
            THEN Result([p EXCEPT !.selectedIndex = @ + 1], <<>>)
            ELSE IF p.currentView = "pipelineDetailView"
            THEN Result([p EXCEPT !.viewport = ViewportUpdate(@, ms)], <<>>)
            ELSE Result(p, <<>>)
      [] ms.key = "enter" ->
            IF p.currentView = "pipelineListView" /\ Len(p.pipelines) > 0
            THEN Result([p EXCEPT !.selectedPipeline = p.pipelines[p.selectedIndex + 1],
                                  !.currentView = "pipelineDetailView",
                                  !.loading = TRUE],
                        <<loadPipelineDetailCmd(p.pipelines[p.selectedIndex + 1])>>)
            ELSE Result(p, <<>>)
      [] ms.key = "pgup" ->       \* viewport.ViewUp
            IF p.currentView = "pipelineDetailView" /\ p.viewport.YOffset > 0
            THEN Result([p EXCEPT !.viewport.YOffset = Max(@ - p.viewport.Height, 0)], <<>>)
            ELSE Result(p, <<>>)
      [] ms.key = "pgdown" ->     \* viewport.ViewDown
            IF /\ p.currentView = "pipelineDetailView"
               /\ p.viewport.YOffset < maxYOffset(p.viewport)
            THEN Result([p EXCEPT !.viewport.YOffset =
                                      Min(@ + p.viewport.Height, maxYOffset(p.viewport))], <<>>)
            ELSE Result(p, <<>>)
      [] OTHER -> Result(p, <<>>)

\* the text of the pipeline detail: six lines of pipeline information
\* (the last the empty text after the final newline), and five lines for
\* each titled section, a stage without jobs or a log of one line: the
\* title, the margin line of titleStyle, a blank line, the stage or log
\* line, and one more blank line
renderDetailContent(p) ==
    [content |-> <<p.selectedPipeline>> \o p.stages \o p.logs,
     lines |-> 6 + 5 * Len(p.stages) + 5 * Len(p.logs)]

\* case pipelinesLoadedMsg
PipelinesLoaded(p, ms) ==
    LET a == [p EXCEPT !.loading = FALSE]
    IN  IF ms.err # NoErr
        THEN [a EXCEPT !.err = ms.err]
        ELSE [a EXCEPT !.pipelines = ms.builds,
                       !.selectedIndex = IF @ >= Len(ms.builds) THEN 0 ELSE @]

\* case pipelineDetailLoadedMsg
PipelineDetailLoaded(p, ms) ==
    LET a == [p EXCEPT !.loading = FALSE]
    IN  IF ms.err # NoErr
        THEN [a EXCEPT !.err = ms.err]
        ELSE LET loaded == [a EXCEPT !.selectedPipeline = ms.pullRequests[1],
                                     !.stages = ms.files, !.logs = ms.logs]
             IN  [loaded EXCEPT !.viewport =
                                    SetContent(@, renderDetailContent(loaded).content,
                                               renderDetailContent(loaded).lines)]

PipelineUpdate(p, ms) ==
    CASE ms.type = "WindowSizeMsg" ->
            Result([p EXCEPT !.viewport.Height = ms.height - 10], <<>>)
      [] ms.type = "KeyMsg" -> PipelineKey(p, ms)
      [] ms.type = "tickMsg" ->
            [Result(p, IF p.autoRefresh THEN RefreshCmds(p) ELSE <<>>) EXCEPT !.tick = TRUE]
      [] ms.type = "pipelinesLoadedMsg" -> Result(PipelinesLoaded(p, ms), <<>>)
      [] ms.type = "pipelineDetailLoadedMsg" -> Result(PipelineDetailLoaded(p, ms), <<>>)
      [] OTHER -> Result(p, <<>>)

\* Model.View of the pipeline list: with an error on record the frame is
\* the error alone; the detail frame is the title of the selected pipeline
\* over the content of the viewport
PipelineView(p) ==
    IF p.err # NoErr
    THEN Frame("Error", <<>>, p.err)
    ELSE IF p.currentView = "pipelineListView"
    THEN IF p.loading /\ Len(p.pipelines) = 0
         THEN Frame("Loading pipelines...", <<>>, NoErr)
         ELSE IF Len(p.pipelines) = 0
         THEN Frame("No pipelines found.", <<>>, NoErr)
         ELSE Frame("pipelineListView", p.pipelines, NoErr)
    ELSE IF p.selectedPipeline = nil
    THEN Frame("No pipeline selected", <<>>, NoErr)
    ELSE IF p.loading /\ Len(p.stages) = 0
    THEN Frame("Loading pipeline details...", <<p.selectedPipeline>>, NoErr)
    ELSE Frame("pipelineDetailView", <<p.selectedPipeline>> \o p.viewport.content, NoErr)

PipelineConsume(ms, done, tickDone) ==
    LET r == PipelineUpdate(pm, ms)
    IN  /\ app = "pipelines" /\ running
        /\ pm' = r.m
        /\ inflight' = ((inflight (-) done) (+) SeqToBag(r.cmds))
                            (+) (IF r.quit /\ ~BagIn(quitCmd, inflight)
                                 THEN SetToBag({quitCmd}) ELSE EmptyBag)
        /\ started' = IF world.bound = "started" THEN started + Len(r.cmds) ELSE started
        /\ ticks' = ticks - tickDone + (IF r.tick THEN 1 ELSE 0)
        /\ UNCHANGED <<app, running, m, world>>

PipelineKeyStep(k) == PipelineConsume(KeyMsg(k), EmptyBag, 0)

PipelineDoneStep(c, ms) ==
    /\ BagIn(c, inflight)
    /\ PipelineConsume(ms, SetToBag({c}), 0)

LoadPipelineDetailCmds == {c \in BagToSet(inflight) : c.op = "loadPipelineDetail"}

PipelineKeyMsg == \E k \in PKeys : PipelineKeyStep(k)

PipelineResize ==
    \E height \in world.heights : PipelineConsume(WindowSizeMsg(height), EmptyBag, 0)

PipelineTick == ticks > 0 /\ PipelineConsume([ZeroMsg EXCEPT !.type = "tickMsg"], EmptyBag, 1)

PipelinesLoadedMsg ==
    \E out \in PipelineOutcomes : PipelineDoneStep(loadPipelinesCmd, loadPipelines(out))

PipelineDetailLoadedMsg ==
    \E c \in LoadPipelineDetailCmds, out \in DetailOutcomes :
        PipelineDoneStep(c, loadPipelineDetail(c.id, out))

\* the runtime handles the message of tea.Quit: Run returns, main discards
\* the final model and the process exits with status 0, abandoning what is
\* in flight
QuitMsg ==
    /\ running
    /\ BagIn(quitCmd, inflight)
    /\ running' = FALSE
    /\ m' = NewModel
    /\ pm' = NewPipelineModel
    /\ inflight' = EmptyBag
    /\ started' = 0
    /\ ticks' = 0
    /\ UNCHANGED <<app, world>>

(***************************************************************************)
(* The two programs.                                                       *)
(***************************************************************************)
\* NewModel, and the commands of Model.Init: loadData and the first tick
InitDashboard(worlds) ==
    /\ app = "dashboard"
    /\ running = TRUE
    /\ world \in worlds
    /\ m = NewModel
    /\ pm = NewPipelineModel
    /\ inflight = SetToBag({loadDataCmd})
    /\ started = 1
    /\ ticks = 1

\* NewModel of package ui, and the commands of its Init
InitPipelines ==
    /\ app = "pipelines"
    /\ running = TRUE
    /\ m = NewModel
    /\ pm = NewPipelineModel
    /\ inflight = SetToBag({loadPipelinesCmd})
    /\ started = 1
    /\ ticks = 1
    /\ world = [prs |-> 0, builds |-> MaxBuilds, heights |-> {18},
                bound |-> "started", commands |-> MaxStarted]

Init == InitDashboard(Worlds) \/ InitPipelines

\* the runs explored: a step A that starts commands is taken while the
\* commands started so far stay within world.commands or, in the runs of
\* any length, while the fetches in flight do
Bounded(A) ==
    /\ A
    /\ IF world.bound = "started"
       THEN started' <= world.commands
       ELSE BagCardinality(inflight') - CopiesIn(quitCmd, inflight') <= world.commands

Next ==
    \/ Bounded(Key) \/ Resize \/ Bounded(Tick)
    \/ DataLoadedMsg \/ FilesLoadedMsg \/ DiffLoadedMsg \/ LogsLoadedMsg
    \/ Bounded(PipelineKeyMsg) \/ PipelineResize \/ Bounded(PipelineTick)
    \/ PipelinesLoadedMsg \/ PipelineDetailLoadedMsg
    \/ QuitMsg

Spec == Init /\ [][Next]_vars

(***************************************************************************)
(* loadData on its own, over a configuration of LoadPairsN pull-request    *)
(* pairs and LoadPairsN pipeline pairs: the service's answers are drawn    *)
(* at the start, and the one step runs the command and keeps its message   *)
(* and the requests it made.                                               *)
(***************************************************************************)
LoadPairsN == 2

\* what the service can answer for pair number pair
LoadPairOutcomes(pair) ==
    {Failed} \cup {Fetched([k \in 1..n |-> 10 * pair + k]) : n \in 0..MaxItems}

LoadOutcomes(base) ==
    {out \in [1..LoadPairsN -> UNION {LoadPairOutcomes(base + i) : i \in 1..LoadPairsN}] :
        \A i \in 1..LoadPairsN : out[i] \in LoadPairOutcomes(base + i)}

InitLoad ==
    /\ app = "loadData"
    /\ running = TRUE
    /\ m = NewModel
    /\ pm = NewPipelineModel
    /\ inflight = SetToBag({loadDataCmd})
    /\ started = 1
    /\ ticks = 0
    /\ \E prOut \in LoadOutcomes(0), plOut \in LoadOutcomes(LoadPairsN) :
          world = [prOut |-> prOut, plOut |-> plOut, calls |-> <<>>, result |-> ZeroMsg]

\* the command returned by loadData runs to its return statement
LoadRun ==
    /\ app = "loadData"
    /\ BagIn(loadDataCmd, inflight)
    /\ inflight' = inflight (-) SetToBag({loadDataCmd})
    /\ world' = [world EXCEPT !.calls = loadDataCalls(world.prOut, world.plOut),
                              !.result = loadData(world.prOut, world.plOut)]
    /\ UNCHANGED <<app, running, m, pm, started, ticks>>

DashboardNext ==
    \/ Bounded(Key) \/ Resize \/ Bounded(Tick)
    \/ DataLoadedMsg \/ FilesLoadedMsg \/ DiffLoadedMsg \/ LogsLoadedMsg
    \/ QuitMsg
    \/ Render

SpecScroll == InitDashboard(ScrollWorlds) /\ [][DashboardNext]_vars

SpecFiles == InitDashboard(FileWorlds) /\ [][DashboardNext]_vars

\* Every command runs in its own goroutine and returns its message once its
\* HTTP requests have returned or timed out: a completion that is possible
\* is eventually delivered.  Keys, ticks and resizes arrive or not; the
\* runs are those of LiveWorlds, in which refreshes and other fetches go on
\* being started for as long as the program runs.
FairSpec ==
    /\ InitDashboard(LiveWorlds)
    /\ [][DashboardNext]_vars
    /\ WF_vars(DataLoadedMsg)
    /\ WF_vars(FilesLoadedMsg)
    /\ WF_vars(DiffLoadedMsg)
    /\ WF_vars(LogsLoadedMsg)

SpecLoad == InitLoad /\ [][LoadRun]_vars

\* loadBuildLogs as a function of what the service answers for the
\* configured pipeline projects
InitLogs ==
    /\ app = "loadBuildLogs"
    /\ running = TRUE
    /\ m = NewModel
    /\ pm = NewPipelineModel
    /\ inflight = SetToBag({loadBuildLogsCmd(21)})
    /\ started = 1
    /\ ticks = 0
    /\ \E out \in [1..LogProjectsN -> ProjectLogOutcomes(MaxSegments)] :
          world = [build |-> 21, out |-> out, returned |-> FALSE, result |-> ZeroMsg]

\* the command returned by loadBuildLogs runs to its return statement
LogsRun ==
    /\ app = "loadBuildLogs"
    /\ ~world.returned
    /\ inflight' = EmptyBag
    /\ world' = [world EXCEPT !.returned = TRUE,
                              !.result = loadBuildLogs(world.build, world.out)]
    /\ UNCHANGED <<app, running, m, pm, started, ticks>>

SpecLogs == InitLogs /\ [][LogsRun]_vars

(***************************************************************************)
(* The diff of one file of a pull request.  A text is the sequence of its  *)
(* characters; the output of GetPRFileDiff is the sequence of the lines    *)
(* it writes, each with the branch that wrote it.                          *)
(***************************************************************************)
MaxText == 3

NL == "\n"
Chars == {"a", "b", NL}

Texts == UNION {[1..n -> Chars] : n \in 0..MaxText}

\* text[from:to] of Go, on a sequence
Slice(text, from, to) == SubSeq(text, from + 1, to)

HasPrefix(text, prefix) ==
    Len(prefix) <= Len(text) /\ Slice(text, 0, Len(prefix)) = prefix

HasSuffix(text, suffix) ==
    Len(suffix) <= Len(text) /\ Slice(text, Len(text) - Len(suffix), Len(text)) = suffix

\* strings.Split(text, "\n")
RECURSIVE SplitFrom(_, _, _)
SplitFrom(text, i, segment) ==
    IF i > Len(text) THEN <<segment>>
    ELSE IF text[i] = NL THEN <<segment>> \o SplitFrom(text, i + 1, <<>>)
    ELSE SplitFrom(text, i + 1, Append(segment, text[i]))

Split(text) == SplitFrom(text, 1, <<>>)

\* fmt.Sprintf("%d", n)
Digit(n) == <<"0", "1", "2", "3", "4", "5", "6", "7", "8", "9">>[n + 1]

RECURSIVE Itoa(_)
Itoa(n) == IF n < 10 THEN <<Digit(n)>> ELSE Itoa(n \div 10) \o <<Digit(n % 10)>>

\* diffmatchpatch: the number of characters two texts share at their start
RECURSIVE commonPrefixLength(_, _)
commonPrefixLength(text1, text2) ==
    IF text1 = <<>> \/ text2 = <<>> \/ Head(text1) # Head(text2) THEN 0
    ELSE 1 + commonPrefixLength(Tail(text1), Tail(text2))

\* diffmatchpatch: the number of characters two texts share at their end
RECURSIVE commonSuffixLength(_, _)
commonSuffixLength(text1, text2) ==
    IF text1 = <<>> \/ text2 = <<>> \/ text1[Len(text1)] # text2[Len(text2)] THEN 0
    ELSE 1 + commonSuffixLength(Slice(text1, 0, Len(text1) - 1), Slice(text2, 0, Len(text2) - 1))

\* diffmatchpatch: the first position of pattern in target, -1 if there is none
runesIndex(target, pattern) ==
    LET at == {i \in 0..(Len(target) - Len(pattern)) :
                  Slice(target, i, i + Len(pattern)) = pattern}
    IN  IF at = {} THEN -1 ELSE CHOOSE i \in at : \A j \in at : i <= j

DiffEqual(text) == [Type |-> "DiffEqual", Text |-> text]
DiffInsert(text) == [Type |-> "DiffInsert", Text |-> text]
DiffDelete(text) == [Type |-> "DiffDelete", Text |-> text]

\* splice of diffmatchpatch: amount elements from index on give way to elements
splice(diffs, index, amount, elements) ==
    Slice(diffs, 0, index) \o elements \o Slice(diffs, index + amount, Len(diffs))

RECURSIVE DiffMain(_, _)

\* the end of the diagonal of equal characters that starts at (x, y)
RECURSIVE Snake(_, _, _, _)
Snake(text1, text2, x, y) ==
    IF x < Len(text1) /\ y < Len(text2) /\ text1[x + 1] = text2[y + 1]
    THEN Snake(text1, text2, x + 1, y + 1)
    ELSE x

Reverse(text) == [i \in 1..Len(text) |-> text[Len(text) + 1 - i]]

\* diffBisect: one step of the front path, for the diagonals from k1 on
RECURSIVE FrontPath(_, _, _)
FrontPath(b, d, k1) ==
    IF k1 > d - b.k1end THEN b
    ELSE LET k1Offset == b.vOffset + k1
             from == IF k1 = -d \/ (k1 # d /\ b.v1[k1Offset - 1] < b.v1[k1Offset + 1])
                     THEN b.v1[k1Offset + 1]
                     ELSE b.v1[k1Offset - 1] + 1
             x1 == Snake(b.runes1, b.runes2, from, from - k1)
             y1 == x1 - k1
             b1 == [b EXCEPT !.v1[k1Offset] = x1]
             k2Offset == b.vOffset + b.delta - k1
         IN  IF x1 > Len(b.runes1) THEN FrontPath([b1 EXCEPT !.k1end = @ + 2], d, k1 + 2)
             ELSE IF y1 > Len(b.runes2) THEN FrontPath([b1 EXCEPT !.k1start = @ + 2], d, k1 + 2)
             ELSE IF /\ b.front
                     /\ k2Offset >= 0 /\ k2Offset < b.vLength
                     /\ b.v2[k2Offset] # -1
                     /\ x1 >= Len(b.runes1) - b.v2[k2Offset]
             THEN [b1 EXCEPT !.overlap = TRUE, !.x = x1, !.y = y1]
             ELSE FrontPath(b1, d, k1 + 2)

\* diffBisect: one step of the reverse path, for the diagonals from k2 on
RECURSIVE ReversePath(_, _, _)
ReversePath(b, d, k2) ==
    IF k2 > d - b.k2end THEN b
    ELSE LET k2Offset == b.vOffset + k2
             from == IF k2 = -d \/ (k2 # d /\ b.v2[k2Offset - 1] < b.v2[k2Offset + 1])
                     THEN b.v2[k2Offset + 1]
                     ELSE b.v2[k2Offset - 1] + 1
             x2 == Snake(Reverse(b.runes1), Reverse(b.runes2), from, from - k2)
             y2 == x2 - k2
             b1 == [b EXCEPT !.v2[k2Offset] = x2]
             k1Offset == b.vOffset + b.delta - k2
         IN  IF x2 > Len(b.runes1) THEN ReversePath([b1 EXCEPT !.k2end = @ + 2], d, k2 + 2)
             ELSE IF y2 > Len(b.runes2) THEN ReversePath([b1 EXCEPT !.k2start = @ + 2], d, k2 + 2)
             ELSE IF /\ ~b.front
                     /\ k1Offset >= 0 /\ k1Offset < b.vLength
                     /\ b.v1[k1Offset] # -1
                     /\ b.v1[k1Offset] >= Len(b.runes1) - x2
             THEN [b1 EXCEPT !.overlap = TRUE, !.x = b.v1[k1Offset],
                             !.y = b.vOffset + b.v1[k1Offset] - k1Offset]
             ELSE ReversePath(b1, d, k2 + 2)

\* diffBisect: the loop over d
RECURSIVE MiddleSnake(_, _)
MiddleSnake(b, d) ==
    IF d >= b.maxD THEN b
    ELSE LET f == FrontPath(b, d, -d + b.k1start)
         IN  IF f.overlap THEN f
             ELSE LET r == ReversePath(f, d, -d + f.k2start)
                  IN  IF r.overlap THEN r ELSE MiddleSnake(r, d + 1)

\* diffBisectSplit
diffBisectSplit(runes1, runes2, x, y) ==
    DiffMain(Slice(runes1, 0, x), Slice(runes2, 0, y))
        \o DiffMain(Slice(runes1, x, Len(runes1)), Slice(runes2, y, Len(runes2)))

\* diffBisect; the deadline of one second is not reached
diffBisect(runes1, runes2) ==
    LET maxD == (Len(runes1) + Len(runes2) + 1) \div 2
        vLength == 2 * maxD
        v == [i \in 0..(vLength - 1) |-> IF i = maxD + 1 THEN 0 ELSE -1]
        delta == Len(runes1) - Len(runes2)
        b == MiddleSnake([runes1 |-> runes1, runes2 |-> runes2, maxD |-> maxD,
                          vOffset |-> maxD, vLength |-> vLength, v1 |-> v, v2 |-> v,
                          delta |-> delta, front |-> delta % 2 # 0,
                          k1start |-> 0, k1end |-> 0, k2start |-> 0, k2end |-> 0,
                          overlap |-> FALSE, x |-> 0, y |-> 0], 0)
    IN  IF b.overlap THEN diffBisectSplit(runes1, runes2, b.x, b.y)
        ELSE <<DiffDelete(runes1), DiffInsert(runes2)>>

\* diffCompute with checklines false, on texts without a common prefix or
\* suffix.  diffHalfMatch finds nothing in a text of fewer than four
\* characters.
diffCompute(text1, text2) ==
    IF Len(text1) = 0 THEN <<DiffInsert(text2)>>
    ELSE IF Len(text2) = 0 THEN <<DiffDelete(text1)>>
    ELSE LET longtext == IF Len(text1) > Len(text2) THEN text1 ELSE text2
             shorttext == IF Len(text1) > Len(text2) THEN text2 ELSE text1
             i == runesIndex(longtext, shorttext)
         IN  IF i # -1
             THEN IF Len(text1) > Len(text2)
                  THEN <<DiffDelete(Slice(longtext, 0, i)), DiffEqual(shorttext),
                         DiffDelete(Slice(longtext, i + Len(shorttext), Len(longtext)))>>
                  ELSE <<DiffInsert(Slice(longtext, 0, i)), DiffEqual(shorttext),
                         DiffInsert(Slice(longtext, i + Len(shorttext), Len(longtext)))>>
             ELSE IF Len(shorttext) = 1
             THEN <<DiffDelete(text1), DiffInsert(text2)>>
             ELSE diffBisect(text1, text2)

\* the first loop of DiffCleanupMerge: runs of edits are merged, and what
\* an insertion and a deletion share moves to the equalities around them
RECURSIVE MergeRuns(_, _, _, _, _, _)
MergeRuns(diffs, pointer, countDelete, countInsert, textDelete, textInsert) ==
    IF pointer >= Len(diffs) THEN diffs
    ELSE IF diffs[pointer + 1].Type = "DiffInsert"
    THEN MergeRuns(diffs, pointer + 1, countDelete, countInsert + 1,
                   textDelete, textInsert \o diffs[pointer + 1].Text)
    ELSE IF diffs[pointer + 1].Type = "DiffDelete"
    THEN MergeRuns(diffs, pointer + 1, countDelete + 1, countInsert,
                   textDelete \o diffs[pointer + 1].Text, textInsert)
    ELSE IF countDelete + countInsert > 1
    THEN LET both == countDelete # 0 /\ countInsert # 0
             prefix == IF both THEN commonPrefixLength(textInsert, textDelete) ELSE 0
             x == pointer - countDelete - countInsert
             grown == x > 0 /\ diffs[x].Type = "DiffEqual"
             d1 == IF prefix = 0 THEN diffs
                   ELSE IF grown
                   THEN [diffs EXCEPT ![x].Text = @ \o Slice(textInsert, 0, prefix)]
                   ELSE <<DiffEqual(Slice(textInsert, 0, prefix))>> \o diffs
             p1 == IF prefix # 0 /\ ~grown THEN pointer + 1 ELSE pointer
             ins1 == Slice(textInsert, prefix, Len(textInsert))
             del1 == Slice(textDelete, prefix, Len(textDelete))
             suffix == IF both THEN commonSuffixLength(ins1, del1) ELSE 0
             d2 == IF suffix = 0 THEN d1
                   ELSE [d1 EXCEPT ![p1 + 1].Text =
                                       Slice(ins1, Len(ins1) - suffix, Len(ins1)) \o @]
             ins2 == Slice(ins1, 0, Len(ins1) - suffix)
             del2 == Slice(del1, 0, Len(del1) - suffix)
             start == p1 - countDelete - countInsert
             merged == IF countDelete = 0 THEN <<DiffInsert(ins2)>>
                       ELSE IF countInsert = 0 THEN <<DiffDelete(del2)>>
                       ELSE <<DiffDelete(del2), DiffInsert(ins2)>>
         IN  MergeRuns(splice(d2, start, countDelete + countInsert, merged),
                       start + 1 + Len(merged), 0, 0, <<>>, <<>>)
    ELSE IF pointer # 0 /\ diffs[pointer].Type = "DiffEqual"
    THEN MergeRuns(splice([diffs EXCEPT ![pointer].Text = @ \o diffs[pointer + 1].Text],
                          pointer, 1, <<>>),
                   pointer, 0, 0, <<>>, <<>>)
    ELSE MergeRuns(diffs, pointer + 1, 0, 0, <<>>, <<>>)

\* the second loop of DiffCleanupMerge: an edit between two equalities
\* moves over the one it ends or starts with
RECURSIVE ShiftEdits(_, _, _)
ShiftEdits(diffs, pointer, changes) ==
    IF pointer >= Len(diffs) - 1 THEN [diffs |-> diffs, changes |-> changes]
    ELSE LET prev == diffs[pointer]
             edit == diffs[pointer + 1]
             next == diffs[pointer + 2]
         IN  IF prev.Type = "DiffEqual" /\ next.Type = "DiffEqual"
             THEN IF HasSuffix(edit.Text, prev.Text)
                  THEN ShiftEdits(
                         splice([diffs EXCEPT
                                   ![pointer + 1].Text =
                                       prev.Text \o Slice(edit.Text, 0, Len(edit.Text) - Len(prev.Text)),
                                   ![pointer + 2].Text = prev.Text \o next.Text],
                                pointer - 1, 1, <<>>),
                         pointer + 1, TRUE)
                  ELSE IF HasPrefix(edit.Text, next.Text)
                  THEN ShiftEdits(
                         splice([diffs EXCEPT
                                   ![pointer].Text = prev.Text \o next.Text,
                                   ![pointer + 1].Text =
                                       Slice(edit.Text, Len(next.Text), Len(edit.Text)) \o next.Text],
                                pointer + 1, 1, <<>>),
                         pointer + 1, TRUE)
                  ELSE ShiftEdits(diffs, pointer + 1, changes)
             ELSE ShiftEdits(diffs, pointer + 1, changes)

RECURSIVE DiffCleanupMerge(_)
DiffCleanupMerge(diffs) ==
    LET run == MergeRuns(Append(diffs, DiffEqual(<<>>)), 0, 0, 0, <<>>, <<>>)
        cut == IF Len(run[Len(run)].Text) = 0 THEN Slice(run, 0, Len(run) - 1) ELSE run
        shifted == ShiftEdits(cut, 1, FALSE)
    IN  IF shifted.changes THEN DiffCleanupMerge(shifted.diffs) ELSE shifted.diffs

\* a difference that calls the whole of text1 deleted and text2 inserted
DiffMain_AsReplacement(text1, text2) ==
    <<[Type |-> "DiffDelete", Text |-> text1], [Type |-> "DiffInsert", Text |-> text2]>>

\* dmp.DiffMain(text1, text2, false)
DiffMain(text1, text2) ==
    IF text1 = text2
    THEN IF Len(text1) > 0 THEN <<DiffEqual(text1)>> ELSE <<>>
    ELSE LET prefix == commonPrefixLength(text1, text2)
             commonprefix == Slice(text1, 0, prefix)
             a1 == Slice(text1, prefix, Len(text1))
             a2 == Slice(text2, prefix, Len(text2))
             suffix == commonSuffixLength(a1, a2)
             commonsuffix == Slice(a1, Len(a1) - suffix, Len(a1))
             b1 == Slice(a1, 0, Len(a1) - suffix)
             b2 == Slice(a2, 0, Len(a2) - suffix)
             middle == diffCompute(b1, b2)
             withPrefix == IF Len(commonprefix) # 0
                           THEN <<DiffEqual(commonprefix)>> \o middle ELSE middle
             withSuffix == IF Len(commonsuffix) # 0
                           THEN Append(withPrefix, DiffEqual(commonsuffix)) ELSE withPrefix
         IN  DiffCleanupMerge(withSuffix)

\* a written line and the branch that wrote it
Line(kind, text) == [kind |-> kind, text |-> text]

FilePath == <<"f">>

DevNull == <<"/", "d", "e", "v", "/", "n", "u", "l", "l">>
OldLine(path) == <<"-", "-", "-", " ">> \o path
NewLine(path) == <<"+", "+", "+", " ">> \o path
HunkLine(oldStart, oldCount, newStart, newCount) ==
    <<"@", "@", " ", "-">> \o Itoa(oldStart) \o <<",">> \o Itoa(oldCount)
        \o <<" ", "+">> \o Itoa(newStart) \o <<",">> \o Itoa(newCount) \o <<" ", "@", "@">>

\* for _, line := range lines { WriteString(marker + line + "\n") }
RECURSIVE EveryLine(_, _, _)
EveryLine(kind, marker, lines) ==
    IF lines = <<>> THEN <<>>
    ELSE <<Line(kind, <<marker>> \o Head(lines))>> \o EveryLine(kind, marker, Tail(lines))

\* the lines of a span with every empty segment skipped
RECURSIVE SpanLines_SkipsBlankLines(_, _, _)
SpanLines_SkipsBlankLines(diff, lines, i) ==
    IF i > Len(lines) THEN <<>>
    ELSE IF lines[i] = <<>> THEN SpanLines_SkipsBlankLines(diff, lines, i + 1)
    ELSE <<[kind |-> (CASE diff.Type = "DiffInsert" -> "Added"
                        [] diff.Type = "DiffDelete" -> "Removed"
                        [] diff.Type = "DiffEqual" -> "Context"),
            text |-> <<(CASE diff.Type = "DiffInsert" -> "+"
                          [] diff.Type = "DiffDelete" -> "-"
                          [] diff.Type = "DiffEqual" -> " ")>> \o lines[i]]>>
         \o SpanLines_SkipsBlankLines(diff, lines, i + 1)

\* the lines written for one span of the difference
RECURSIVE SpanLines(_, _, _)
SpanLines(diff, lines, i) ==
    IF i > Len(lines) THEN <<>>
    ELSE IF i = Len(lines) /\ lines[i] = <<>> THEN SpanLines(diff, lines, i + 1)
    ELSE <<CASE diff.Type = "DiffInsert" -> Line("Added", <<"+">> \o lines[i])
             [] diff.Type = "DiffDelete" -> Line("Removed", <<"-">> \o lines[i])
             [] diff.Type = "DiffEqual" -> Line("Context", <<" ">> \o lines[i])>>
         \o SpanLines(diff, lines, i + 1)

RECURSIVE AllSpans(_)
AllSpans(diffs) ==
    IF diffs = <<>> THEN <<>>
    ELSE SpanLines(Head(diffs), Split(Head(diffs).Text), 1) \o AllSpans(Tail(diffs))

\* Client.GetPRFileDiff, given what the three requests answer
\* GetPRFileDiff with the deleted-file branch taken when both bodies are
\* missing
GetPRFileDiff_DeletedFirst(pr, filePath, target, source) ==
    IF ~pr
    THEN [diff |-> <<>>, err |-> Err("GetPRFileDiff", 0)]
    ELSE LET targetText == IF target.ok THEN target.items ELSE <<>>
             isNewFile == ~target.ok
             sourceText == IF source.ok THEN source.items ELSE <<>>
             isDeletedFile == ~source.ok
             diffs == DiffMain(targetText, sourceText)
             DiffGitLine == <<"d", "i", "f", "f", " ", "-", "-", "g", "i", "t", " ", "a", "/">>
                                \o filePath \o <<" ", "b", "/">> \o filePath
             NewFileLine == <<"n", "e", "w", " ", "f", "i", "l", "e">>
             DeletedFileLine == <<"d", "e", "l", "e", "t", "e", "d", " ", "f", "i", "l", "e">>
             head == <<Line("Header", DiffGitLine)>>
             body ==
                 IF isNewFile /\ ~isDeletedFile
                 THEN <<Line("Header", NewFileLine),
                        Line("Header", OldLine(DevNull)),
                        Line("Header", NewLine(<<"b", "/">> \o filePath)),
                        Line("Hunk", HunkLine(0, 0, 1, Len(Split(sourceText))))>>
                      \o EveryLine("Added", "+", Split(sourceText))
                 ELSE IF isDeletedFile
                 THEN <<Line("Header", DeletedFileLine),
                        Line("Header", OldLine(<<"a", "/">> \o filePath)),
                        Line("Header", NewLine(DevNull)),
                        Line("Hunk", HunkLine(1, Len(Split(targetText)), 0, 0))>>
                      \o EveryLine("Removed", "-", Split(targetText))
                 ELSE <<Line("Header", OldLine(<<"a", "/">> \o filePath)),
                        Line("Header", NewLine(<<"b", "/">> \o filePath)),
                        Line("Hunk", HunkLine(1, Len(Split(targetText)), 1, Len(Split(sourceText))))>>
                      \o AllSpans(diffs)
         IN  [diff |-> head \o body, err |-> NoErr]

\* GetPRFileDiff
GetPRFileDiff(pr, filePath, target, source) ==
    IF ~pr
    THEN [diff |-> <<>>, err |-> Err("GetPRFileDiff", 0)]
    ELSE LET targetText == IF target.ok THEN target.items ELSE <<>>
             isNewFile == ~target.ok
             sourceText == IF source.ok THEN source.items ELSE <<>>
             isDeletedFile == ~source.ok
             diffs == DiffMain(targetText, sourceText)
             DiffGitLine == <<"d", "i", "f", "f", " ", "-", "-", "g", "i", "t", " ", "a", "/">>
                                \o filePath \o <<" ", "b", "/">> \o filePath
             NewFileLine == <<"n", "e", "w", " ", "f", "i", "l", "e">>
             DeletedFileLine == <<"d", "e", "l", "e", "t", "e", "d", " ", "f", "i", "l", "e">>
             head == <<Line("Header", DiffGitLine)>>
             body ==
                 IF isNewFile
                 THEN <<Line("Header", NewFileLine),
                        Line("Header", OldLine(DevNull)),
                        Line("Header", NewLine(<<"b", "/">> \o filePath)),
                        Line("Hunk", HunkLine(0, 0, 1, Len(Split(sourceText))))>>
                      \o EveryLine("Added", "+", Split(sourceText))
                 ELSE IF isDeletedFile
                 THEN <<Line("Header", DeletedFileLine),
                        Line("Header", OldLine(<<"a", "/">> \o filePath)),
                        Line("Header", NewLine(DevNull)),
                        Line("Hunk", HunkLine(1, Len(Split(targetText)), 0, 0))>>
                      \o EveryLine("Removed", "-", Split(targetText))
                 ELSE <<Line("Header", OldLine(<<"a", "/">> \o filePath)),
                        Line("Header", NewLine(<<"b", "/">> \o filePath)),
                        Line("Hunk", HunkLine(1, Len(Split(targetText)), 1, Len(Split(sourceText))))>>
                      \o AllSpans(diffs)
         IN  [diff |-> head \o body, err |-> NoErr]

\* what a request for the body of the file at a commit can answer
BodyOutcomes == {Failed} \cup {Fetched(text) : text \in Texts}

InitDiff ==
    /\ app = "diff"
    /\ running = TRUE
    /\ m = NewModel
    /\ pm = NewPipelineModel
    /\ inflight = SetToBag({loadFileDiffCmd(1, 1)})
    /\ started = 1
    /\ ticks = 0
    /\ \E pr \in BOOLEAN, target \in BodyOutcomes, source \in BodyOutcomes :
          world = [pr |-> pr, target |-> target, source |-> source,
                      returned |-> FALSE, diff |-> <<>>, err |-> NoErr]

\* the call of GetPRFileDiff in the command returned by loadFileDiff
DiffRun ==
    /\ app = "diff"
    /\ ~world.returned
    /\ \E r \in {GetPRFileDiff(world.pr, FilePath, world.target, world.source)} :
          world' = [world EXCEPT !.returned = TRUE, !.diff = r.diff, !.err = r.err]
    /\ inflight' = EmptyBag
    /\ UNCHANGED <<app, running, m, pm, started, ticks>>

SpecDiff == InitDiff /\ [][DiffRun]_vars

(***************************************************************************)
(* Syntax highlighting of diff lines (syntax.go).  A path and a line are   *)
(* sequences of characters; highlighted code is the code between the       *)
(* escape sequences of its language.                                       *)
(***************************************************************************)
\* strings.ToLower
ToLower(text) ==
    LET UpperCase == <<"A", "B", "C", "D", "E", "F", "G", "H", "I", "J", "K", "L", "M",
                       "N", "O", "P", "Q", "R", "S", "T", "U", "V", "W", "X", "Y", "Z">>
        LowerCase == <<"a", "b", "c", "d", "e", "f", "g", "h", "i", "j", "k", "l", "m",
                       "n", "o", "p", "q", "r", "s", "t", "u", "v", "w", "x", "y", "z">>
    IN  [i \in 1..Len(text) |->
            IF \E j \in 1..26 : UpperCase[j] = text[i]
            THEN LowerCase[CHOOSE j \in 1..26 : UpperCase[j] = text[i]]
            ELSE text[i]]

\* filepath.Ext: from the last dot of the last element on
Ext(path) ==
    LET RECURSIVE ExtFrom(_)
        ExtFrom(i) ==
            IF i < 1 \/ path[i] = "/" THEN <<>>
            ELSE IF path[i] = "." THEN Slice(path, i - 1, Len(path))
            ELSE ExtFrom(i - 1)
    IN  ExtFrom(Len(path))

\* filepath.Base: the last element, without trailing separators
Base(path) ==
    LET RECURSIVE StripSeparators(_)
        StripSeparators(p) ==
            IF Len(p) > 0 /\ p[Len(p)] = "/"
            THEN StripSeparators(Slice(p, 0, Len(p) - 1)) ELSE p
        stripped == StripSeparators(path)
        RECURSIVE LastElement(_)
        LastElement(i) ==
            IF i < 1 \/ stripped[i] = "/" THEN Slice(stripped, i, Len(stripped))
            ELSE LastElement(i - 1)
    IN  IF path = <<>> THEN <<".">>
        ELSE IF stripped = <<>> THEN <<"/">>
        ELSE LastElement(Len(stripped))

languageMap ==
    <<".", "g", "o">> :> "go"
    @@ <<".", "j", "s">> :> "javascript"
    @@ <<".", "t", "s">> :> "typescript"
    @@ <<".", "j", "s", "x">> :> "jsx"
    @@ <<".", "t", "s", "x">> :> "tsx"
    @@ <<".", "p", "y">> :> "python"
    @@ <<".", "j", "a", "v", "a">> :> "java"
    @@ <<".", "c">> :> "c"
    @@ <<".", "c", "p", "p">> :> "cpp"
    @@ <<".", "c", "c">> :> "cpp"
    @@ <<".", "c", "x", "x">> :> "cpp"
    @@ <<".", "h">> :> "c"
    @@ <<".", "h", "p", "p">> :> "cpp"
    @@ <<".", "c", "s">> :> "csharp"
    @@ <<".", "r", "b">> :> "ruby"
    @@ <<".", "p", "h", "p">> :> "php"
    @@ <<".", "r", "s">> :> "rust"
    @@ <<".", "s", "w", "i", "f", "t">> :> "swift"
    @@ <<".", "k", "t">> :> "kotlin"
    @@ <<".", "s", "c", "a", "l", "a">> :> "scala"
    @@ <<".", "s", "h">> :> "bash"
    @@ <<".", "b", "a", "s", "h">> :> "bash"
    @@ <<".", "z", "s", "h">> :> "bash"
    @@ <<".", "p", "s", "1">> :> "powershell"
    @@ <<".", "y", "a", "m", "l">> :> "yaml"
    @@ <<".", "y", "m", "l">> :> "yaml"
    @@ <<".", "j", "s", "o", "n">> :> "json"
    @@ <<".", "x", "m", "l">> :> "xml"
    @@ <<".", "h", "t", "m", "l">> :> "html"
    @@ <<".", "c", "s", "s">> :> "css"
    @@ <<".", "s", "c", "s", "s">> :> "scss"
    @@ <<".", "s", "a", "s", "s">> :> "sass"
    @@ <<".", "s", "q", "l">> :> "sql"
    @@ <<".", "m", "d">> :> "markdown"
    @@ <<".", "v", "i", "m">> :> "vim"
    @@ <<".", "l", "u", "a">> :> "lua"
    @@ <<".", "p", "l">> :> "perl"
    @@ <<".", "r">> :> "r"
    @@ <<".", "m">> :> "objective-c"
    @@ <<".", "d", "a", "r", "t">> :> "dart"
    @@ <<".", "e", "x">> :> "elixir"
    @@ <<".", "e", "x", "s">> :> "elixir"
    @@ <<".", "e", "r", "l">> :> "erlang"
    @@ <<".", "h", "s">> :> "haskell"
    @@ <<".", "c", "l", "j">> :> "clojure"
    @@ <<".", "m", "l">> :> "ocaml"
    @@ <<".", "f", "s">> :> "fsharp"
    @@ <<".", "v", "b">> :> "vb.net"
    @@ <<".", "g", "r", "o", "o", "v", "y">> :> "groovy"
    @@ <<".", "g", "r", "a", "d", "l", "e">> :> "groovy"

\* detectLanguage
detectLanguage(filePath) ==
    LET ext == ToLower(Ext(filePath))
        filename == ToLower(Base(filePath))
    IN  IF ext \in DOMAIN languageMap THEN languageMap[ext]
        ELSE IF filename = <<"m", "a", "k", "e", "f", "i", "l", "e">> \/ filename = <<"g", "n", "u", "m", "a", "k", "e", "f", "i", "l", "e">> THEN "make"
        ELSE IF filename = <<"d", "o", "c", "k", "e", "r", "f", "i", "l", "e">> \/ HasPrefix(filename, <<"d", "o", "c", "k", "e", "r", "f", "i", "l", "e", ".">>)
        THEN "docker"
        ELSE IF filename = <<"j", "e", "n", "k", "i", "n", "s", "f", "i", "l", "e">> THEN "groovy"
        ELSE ""

\* highlightCode; tokenised and formatted say whether lexer.Tokenise and
\* formatter.Format return without an error.  Highlighted code is what the
\* terminal256 formatter writes for it, the final newline trimmed.
highlightCode(code, language, tokenised, formatted) ==
    IF language = "" \/ code = <<>> THEN code
    ELSE IF ~tokenised THEN code
    ELSE IF ~formatted THEN code
    ELSE <<"\\033[" \o language>> \o code \o <<"\\033[0m">>

\* highlightDiffLine with the marker left out of what it returns
highlightDiffLine_DropsMarker(line, language, tokenised, formatted) ==
    IF Len(line) = 0 THEN line
    ELSE IF Len(line) > 1 /\ language # "" /\ tokenised /\ formatted
    THEN <<"\\033[" \o language>> \o Tail(line) \o <<"\\033[0m">>
    ELSE Tail(line)

\* highlightDiffLine
highlightDiffLine(line, language, tokenised, formatted) ==
    IF Len(line) = 0 THEN line
    ELSE LET marked == line[1] \in {"+", "-", " "}
             prefix == IF marked THEN <<line[1]>> ELSE <<>>
             codePart == IF marked THEN (IF Len(line) > 1 THEN Tail(line) ELSE <<>>) ELSE line
         IN  prefix \o (IF codePart # <<>> /\ language # ""
                        THEN highlightCode(codePart, language, tokenised, formatted)
                        ELSE codePart)

\* the paths and the diff lines the highlighting is run on
InitHighlight ==
    LET HighlightPaths ==
            {<<"m", "a", "i", "n", ".", "g", "o">>,
             <<"s", "r", "c", "/", "a", "p", "p", ".", "P", "Y">>,
             <<"R", "E", "A", "D", "M", "E">>,
             <<"n", "o", "t", "e", "s", ".", "t", "x", "t">>,
             <<"M", "a", "k", "e", "f", "i", "l", "e">>,
             <<"D", "o", "c", "k", "e", "r", "f", "i", "l", "e", ".", "d", "e", "v">>,
             <<"d", "o", "c", "k", "e", "r", "f", "i", "l", "e">>,
             <<"J", "e", "n", "k", "i", "n", "s", "f", "i", "l", "e">>,
             <<".", "g", "o">>,
             <<"a", ".", "b", "/", "c">>,
             <<"x", ".", "y", "m", "l">>,
             <<"l", "i", "b", ".", "d", "/", "G", "N", "U", "m", "a", "k", "e", "f", "i", "l", "e">>,
             <<"a", "r", "c", "h", "i", "v", "e", ".", "t", "a", "r", ".", "g", "z">>,
             <<"d", "o", "c", "s", "/", "M", "a", "k", "e", "f", "i", "l", "e", ".", "a", "m">>}
        HighlightLines ==
            {<<"+", "x", "=", "1">>,
             <<"-", "x">>,
             <<" ", "y">>,
             <<>>,
             <<"+">>,
             <<"@", "@">>,
             <<"x">>}
    IN  /\ app = "highlight"
        /\ running = TRUE
        /\ m = NewModel
        /\ pm = NewPipelineModel
        /\ inflight = EmptyBag
        /\ started = 0
        /\ ticks = 0
        /\ \E path \in HighlightPaths, line \in HighlightLines,
              tokenised \in BOOLEAN, formatted \in BOOLEAN :
              world = [path |-> path, line |-> line, tokenised |-> tokenised,
                       formatted |-> formatted, returned |-> FALSE,
                       language |-> "", code |-> <<>>, out |-> <<>>]

\* the language of the path is detected and the line highlighted for it
HighlightRun ==
    /\ app = "highlight"
    /\ ~world.returned
    /\ \E language \in {detectLanguage(world.path)} :
          world' = [world EXCEPT
                      !.returned = TRUE,
                      !.language = language,
                      !.code = highlightCode(world.line, language, world.tokenised, world.formatted),
                      !.out = highlightDiffLine(world.line, language, world.tokenised, world.formatted)]
    /\ UNCHANGED <<app, running, m, pm, inflight, started, ticks>>

SpecHighlight == InitHighlight /\ [][HighlightRun]_vars

(***************************************************************************)
(* The colouring of a diff (formatDiff).  What is written for a line is    *)
(* the style it is rendered in, the text rendered in that style and the    *)
(* text written after it outside the style.                                *)
(***************************************************************************)

\* formatDiff: the diff is split at its newlines, so that after the lines
\* GetPRFileDiff wrote comes the empty text after the last newline
formatDiff(diff, filePath) ==
    LET lines == [i \in 1..Len(diff) |-> diff[i].text] \o << <<>> >>
        language == detectLanguage(filePath)
        Styled(style, text) == [style |-> style, styled |-> text, rest |-> <<>>]
        Plain(text) == [style |-> "none", styled |-> <<>>, rest |-> text]
        Marked(style, line) ==
            IF language # "" /\ Len(line) > 1
            THEN [style |-> style, styled |-> <<line[1]>>,
                  rest |-> highlightCode(Tail(line), language, TRUE, TRUE)]
            ELSE Styled(style, line)
        Format(line) ==
            IF Len(line) = 0 THEN Plain(<<>>)
            ELSE IF HasPrefix(line, <<"+">>)
            THEN IF ~HasPrefix(line, <<"+", "+", "+">>)
                 THEN Marked("added", line)
                 ELSE Styled("header", line)
            ELSE IF HasPrefix(line, <<"-">>)
            THEN IF ~HasPrefix(line, <<"-", "-", "-">>)
                 THEN Marked("deleted", line)
                 ELSE Styled("header", line)
            ELSE IF HasPrefix(line, <<"@", "@">>) THEN Styled("hunk", line)
            ELSE IF HasPrefix(line, <<"d", "i", "f", "f", " ", "-", "-", "g", "i", "t">>)
            THEN Styled("header", line)
            ELSE IF \/ HasPrefix(line, <<"n", "e", "w", " ", "f", "i", "l", "e">>)
                    \/ HasPrefix(line, <<"d", "e", "l", "e", "t", "e", "d", " ", "f", "i", "l", "e">>)
            THEN Styled("hunk", line)
            ELSE IF language # "" /\ line[1] = " "
            THEN [style |-> "none", styled |-> <<>>,
                  rest |-> <<" ">> \o highlightCode(Tail(line), language, TRUE, TRUE)]
            ELSE Plain(line)
    IN  [i \in 1..Len(lines) |-> Format(lines[i])]

\* the diff of a file whose lines are made of the markers of a diff, under
\* a path without and a path with a language
InitFormat ==
    /\ app = "formatDiff"
    /\ running = TRUE
    /\ m = NewModel
    /\ pm = NewPipelineModel
    /\ inflight = EmptyBag
    /\ started = 0
    /\ ticks = 0
    /\ \E target \in {Failed} \cup {Fetched(text) : text \in UNION {[1..n -> {"+", "-", NL}] : n \in 0..MaxText}},
          source \in {Failed} \cup {Fetched(text) : text \in UNION {[1..n -> {"+", "-", NL}] : n \in 0..MaxText}},
          path \in {FilePath, FilePath \o <<".", "g", "o">>} :
          world = [target |-> target, source |-> source, path |-> path,
                   returned |-> FALSE, diff |-> <<>>, formatted |-> <<>>]

\* case DiffLoadedMsg: the diff GetPRFileDiff returned is formatted for the
\* diff viewport
FormatRun ==
    /\ app = "formatDiff"
    /\ ~world.returned
    /\ \E r \in {GetPRFileDiff(TRUE, world.path, world.target, world.source)} :
          world' = [world EXCEPT !.returned = TRUE, !.diff = r.diff,
                                 !.formatted = formatDiff(r.diff, world.path)]
    /\ UNCHANGED <<app, running, m, pm, inflight, started, ticks>>

SpecFormat == InitFormat /\ [][FormatRun]_vars

(***************************************************************************)
(* Properties.  What a property says about one step of the message loop is *)
(* stated on the step action that consumes the message.                    *)
(***************************************************************************)
\* the full refreshes in flight
RefreshesInFlight == CopiesIn(loadDataCmd, inflight)

\* a step in which one full refresh delivers its message: a DataLoadedMsg
\* starts no command
RefreshCompleted == RefreshesInFlight' = RefreshesInFlight - 1

\* C1: at most one full refresh (loadData) is in flight at any time; a
\* manual or tick-triggered refresh requested while one is outstanding
\* starts no new fetch.
C1_AtMostOneRefreshInFlight == RefreshesInFlight <= 1

\* the file the cursor of the file list is on, and the (pull request, path)
\* pair the user has selected
SelectedFile(mm) ==
    IF Index(mm.fileList) < Len(mm.prFiles) THEN mm.prFiles[Index(mm.fileList) + 1] ELSE nil

SelectedDiff(mm) == <<mm.selectedPR, SelectedFile(mm)>>

\* C2: while the FileDiff view shows the diff of the selected (pull request,
\* path) pair, the completion of a diff request for another pair does not
\* overwrite the displayed diff.
C2_StaleDiffNeverOverwrites ==
    [][\A c \in LoadFileDiffCmds :
          (/\ DoneStep(c, loadFileDiff(c.id, c.file, TRUE))
           /\ m.view = "FileDiff"
           /\ m.currentDiff = SelectedDiff(m)
           /\ <<c.id, c.file>> # SelectedDiff(m))
          => m'.currentDiff = m.currentDiff]_vars

\* the configured pairs whose fetch failed in a full refresh
FailedPairs(prOut, plOut) ==
    {i \in 1..Len(prOut) : ~prOut[i].ok} \cup {Len(prOut) + j : j \in {j \in 1..Len(plOut) : ~plOut[j].ok}}

AllPairs == 1..(NumPR + NumPL)

\* C3: when a full refresh completes with some but not all configured pairs
\* failing, the pull requests and builds of the successful pairs replace
\* the displayed lists.
C3_PartialSuccessApplied ==
    [][\A prOut \in PROutcomes(world), plOut \in PLOutcomes(world) :
          (/\ DataStep(loadData(prOut, plOut))
           /\ FailedPairs(prOut, plOut) # {}
           /\ FailedPairs(prOut, plOut) # AllPairs)
          => /\ m'.pullRequests = loadData(prOut, plOut).pullRequests
             /\ m'.builds = loadData(prOut, plOut).builds
             /\ m'.prList.items = loadData(prOut, plOut).pullRequests
             /\ m'.buildList.items = loadData(prOut, plOut).builds]_vars

\* the configured pairs an error names
NamedPairs(err) == IF err = NoErr THEN {} ELSE {err.pair}

\* C4: the error a full refresh delivers names exactly the configured pairs
\* whose fetch failed.
C4_ErrorNamesFailedPairs ==
    [][\A prOut \in PROutcomes(world), plOut \in PLOutcomes(world) :
          DataStep(loadData(prOut, plOut))
          => NamedPairs(loadData(prOut, plOut).err) = FailedPairs(prOut, plOut)]_vars

\* the completion of c with a PR-files, file-diff or build-log error
FilesError(c) == DoneStep(c, loadPRFiles(c.id, Failed))
DiffError(c) == DoneStep(c, loadFileDiff(c.id, c.file, FALSE))
LogsError(c, out) ==
    /\ loadBuildLogs(c.id, out).err # NoErr
    /\ DoneStep(c, loadBuildLogs(c.id, out))

\* C5: a PR-files, file-diff or build-log fetch that completes with an error
\* leaves the view as it was and records the error.  The case
\* FilesLoadedMsg sets the view to PRFiles in its error branch as well, so
\* a failed PR-files fetch moves the user from PRDetails (or from wherever
\* the completion arrives) to PRFiles.
C5_ErrorKeepsView ==
    [][/\ \A c \in LoadPRFilesCmds :
            FilesError(c) => m'.view = m.view /\ m'.err = Err("loadPRFiles", 0)
       /\ \A c \in LoadFileDiffCmds :
            DiffError(c) => m'.view = m.view /\ m'.err = Err("loadFileDiff", 0)
       /\ \A c \in LoadBuildLogsCmds, out \in LogOutcomes :
            LogsError(c, out) => m'.view = m.view /\ m'.err = Err("loadBuildLogs", 0)]_vars

\* the parent of a view in the back chain
BackTarget(v) ==
    CASE v = "FileDiff" -> "PRFiles"
      [] v = "PRFiles" -> "PRDetails"
      [] v = "PRDetails" -> "Dashboard"
      [] v = "BuildLogs" -> "Dashboard"
      [] OTHER -> v

\* the model after a back event, with no other message in between
Back(mm) == Update(mm, KeyMsg("h")).m

\* C6: a back event sets the view to the parent of the current view
\* (FileDiff to PRFiles, PRFiles to PRDetails, PRDetails and BuildLogs to
\* Dashboard) and leaves Dashboard on Dashboard, in every reachable state;
\* three consecutive back events reach Dashboard from any view.
C6_BackChain ==
    [][KeyStep("h") =>
          /\ running'
          /\ m'.view = BackTarget(m.view)
          /\ \A m2 \in {Back(m')} : \A m3 \in {Back(m2)} :
                /\ m3.view = "Dashboard"
                /\ Back(m3).view = "Dashboard"]_vars

\* the Dashboard after a visit to the PR details: a back event led there
C6_Witness ==
    /\ app = "dashboard" /\ running
    /\ m.view = "Dashboard"
    /\ m.selectedPR # nil
    /\ m.currentDiff # <<>>

\* the selection of a list component is in bounds, or the list is empty
InBounds(l) == Len(l.items) = 0 \/ (0 <= Index(l) /\ Index(l) < Len(l.items))

\* C7: in every reachable state the selected index of every list (pull
\* requests, builds, changed files, pipelines) is within the list, or the
\* list is empty.
C7_SelectionInBounds ==
    /\ InBounds(m.prList)
    /\ InBounds(m.buildList)
    /\ InBounds(m.fileList)
    /\ Len(pm.pipelines) = 0
         \/ (0 <= pm.selectedIndex /\ pm.selectedIndex < Len(pm.pipelines))

\* enter is pressed where the transition depends on a list selection, and
\* the list is empty or its selection out of bounds
NoSelection(items, l) == Len(items) = 0 \/ ~(0 <= Index(l) /\ Index(l) < Len(items))

EnterBlocked(mm) ==
    \/ mm.view = "Dashboard" /\ mm.activeTab = 0 /\ NoSelection(mm.pullRequests, mm.prList)
    \/ mm.view = "Dashboard" /\ mm.activeTab = 1 /\ NoSelection(mm.builds, mm.buildList)
    \/ mm.view = "PRFiles" /\ NoSelection(mm.prFiles, mm.fileList)

\* C8: enter on the pull request tab, the builds tab or the PRFiles view
\* with an empty list or an out-of-bounds selection changes nothing and
\* starts no command, as does enter on an empty pipeline list; a
\* transition that indexes the pipeline list does so within its bounds.
C8_EnterWithoutSelection ==
    [][/\ KeyStep("enter") /\ EnterBlocked(m) => UNCHANGED <<m, inflight, started>>
       /\ (app = "pipelines" /\ running /\ Len(pm.pipelines) > 0)
            => (0 <= pm.selectedIndex /\ pm.selectedIndex < Len(pm.pipelines))
       /\ PipelineKeyStep("enter") /\ Len(pm.pipelines) = 0
            => UNCHANGED <<pm, inflight, started>>]_vars

\* the PRFiles view of a pull request without changed files
C8_Witness ==
    /\ app = "dashboard" /\ running
    /\ m.view = "PRFiles"
    /\ m.err = NoErr
    /\ EnterBlocked(m)

\* C9: a full refresh or PR-files fetch that completes with an error
\* records the error and leaves the stored lists (pullRequests and builds,
\* or prFiles) and the items of their list components as they were.
C9_ErrorKeepsLists ==
    [][/\ RefreshCompleted =>
            \A ms \in DataMsgs(world) :
                (ms.err # NoErr /\ DataStep(ms))
                => /\ m'.err = ms.err
                   /\ m'.pullRequests = m.pullRequests
                   /\ m'.builds = m.builds
                   /\ m'.prList.items = m.prList.items
                   /\ m'.buildList.items = m.buildList.items
       /\ \A c \in LoadPRFilesCmds :
            FilesError(c)
            => /\ m'.err = Err("loadPRFiles", 0)
               /\ m'.prFiles = m.prFiles
               /\ m'.fileList.items = m.fileList.items]_vars

\* a failed refresh is on record next to the lists of an earlier one
C9_Witness ==
    /\ app = "dashboard" /\ running
    /\ m.err.op = "loadData"
    /\ m.pullRequests # <<>>
    /\ m.builds # <<>>
    /\ m.prList.items = m.pullRequests

\* C10: a full refresh (of the dashboard, or of the pipeline list) that
\* completes without error leaves no error recorded.
C10_SuccessClearsError ==
    [][/\ \A ms \in DataMsgs(world) :
            (DataStep(ms) /\ ms.err = NoErr) => m'.err = NoErr
       /\ \A out \in PipelineOutcomes :
            (PipelineDoneStep(loadPipelinesCmd, loadPipelines(out)) /\ out.ok)
            => pm'.err = NoErr]_vars

\* C11: every successful forward navigation (enter on a pull request, PR
\* files loaded in PRDetails, diff loaded in PRFiles, logs loaded on the
\* Dashboard) leaves no error recorded in the state that shows the new view.
C11_ForwardClearsError ==
    [][/\ (KeyStep("enter") /\ m.view = "Dashboard" /\ m'.view = "PRDetails")
            => m'.err = NoErr
       /\ \A c \in LoadPRFilesCmds : \A out \in FileOutcomes(world, c.id) :
            (out.ok /\ m.view = "PRDetails" /\ DoneStep(c, loadPRFiles(c.id, out)))
            => (m'.view = "PRFiles" /\ m'.err = NoErr)
       /\ \A c \in LoadFileDiffCmds :
            (m.view = "PRFiles" /\ DoneStep(c, loadFileDiff(c.id, c.file, TRUE)))
            => (m'.view = "FileDiff" /\ m'.err = NoErr)
       /\ \A c \in LoadBuildLogsCmds, out \in LogOutcomes :
            (/\ m.view = "Dashboard"
             /\ loadBuildLogs(c.id, out).err = NoErr
             /\ DoneStep(c, loadBuildLogs(c.id, out)))
            => (m'.view = "BuildLogs" /\ m'.err = NoErr)]_vars

\* C12: a back event in PRDetails, PRFiles, FileDiff or BuildLogs changes
\* the view and, in the same step, leaves no error recorded.
C12_BackClearsError ==
    [][(KeyStep("h") /\ m.view # "Dashboard")
          => (m'.view # m.view /\ m'.err = NoErr)]_vars

\* an error is on record in each of the views a back event leaves
C12_Witness ==
    /\ app = "dashboard" /\ running
    /\ m.view = "BuildLogs"
    /\ m.err # NoErr

\* the last good data of the current view
LastGoodData(mm) ==
    CASE mm.view = "Dashboard" -> IF mm.activeTab = 0 THEN mm.pullRequests ELSE mm.builds
      [] mm.view = "PRDetails" -> <<mm.selectedPR>>
      [] mm.view = "PRFiles" -> mm.prFiles
      [] mm.view = "FileDiff" -> mm.currentDiff
      [] mm.view = "BuildLogs" -> mm.buildLogs
      [] OTHER -> <<>>

\* C13: in every reachable state with an error on record, the frame of the
\* current view shows the error and the view's last good data (in the
\* pipeline list: the error and the pipelines).
C13_ErrorShownWithData ==
    /\ (app = "dashboard" /\ running /\ m.err # NoErr)
         => (View(m).err = m.err /\ View(m).data = LastGoodData(m))
    /\ (app = "pipelines" /\ running /\ pm.err # NoErr /\ pm.currentView = "pipelineListView")
         => (PipelineView(pm).err = pm.err /\ PipelineView(pm).data = pm.pipelines)

\* a step that consumes a DataLoadedMsg: the steps in which a full refresh
\* leaves flight and the program keeps running are the DataLoadedMsg steps
RefreshAnswered == running' /\ RefreshCompleted

\* where the user is and what was selected and fetched for it
Navigation(mm) ==
    <<mm.view, mm.activeTab, mm.selectedPR, mm.selectedBuild, mm.prFiles,
      mm.currentDiff, mm.buildLogs>>

\* C14: a manual refresh starts a full refresh in whatever view it is
\* pressed, and neither it nor the DataLoadedMsg answering a refresh
\* (success or error) changes the view, the active tab, selectedPR,
\* selectedBuild, prFiles, currentDiff or buildLogs.
C14_RefreshKeepsNavigation ==
    [][/\ KeyStep("r")
            => /\ running'
               /\ RefreshesInFlight' = RefreshesInFlight + 1
               /\ Navigation(m') = Navigation(m)
       /\ RefreshAnswered => Navigation(m') = Navigation(m)]_vars

\* a refresh was answered with an error while the changed files were on
\* display
C14_Witness ==
    /\ app = "dashboard" /\ running
    /\ m.view = "PRFiles"
    /\ m.err.op = "loadData"
    /\ m.prFiles # <<>>

\* C15: consuming a tick starts a full refresh only if auto-refresh is on
\* and the time since lastUpdate, which is no earlier than the last
\* successful refresh, has reached the refresh interval; any other tick
\* starts nothing.
C15_TickRefreshOnlyWhenDue ==
    [][TickStep =>
          /\ running'
          /\ (inflight' # inflight)
               => (/\ m'.autoRefresh
                   /\ m'.sinceLastUpdate >= RefreshInterval
                   /\ RefreshesInFlight' = RefreshesInFlight + 1)
          /\ ~(m'.autoRefresh /\ m'.sinceLastUpdate >= RefreshInterval)
               => (inflight' = inflight /\ started' = started)]_vars

\* a tick arrived before the interval had passed and started nothing
C15_Witness ==
    /\ app = "dashboard" /\ running
    /\ m.sinceLastUpdate > 0
    /\ m.sinceLastUpdate < RefreshInterval
    /\ inflight = EmptyBag

\* the commands a step starts, by class
Starts(op) ==
    \E c \in BagToSet(inflight') : c.op = op /\ CopiesIn(c, inflight') > CopiesIn(c, inflight)

\* a step in which a command delivers its completion message
Completion ==
    /\ running'
    /\ \E c \in BagToSet(inflight) : CopiesIn(c, inflight') < CopiesIn(c, inflight)

\* the one fetch started so far, the first full refresh, has failed
FirstRefreshFailed ==
    /\ app = "dashboard" /\ running
    /\ started = 1
    /\ inflight = EmptyBag
    /\ m.err.op = "loadData"

\* C16 as the specification states it, for the first full refresh of a run:
\* once it has completed with an error, a fetch is started again only by a
\* key the user presses.
C16_NoFetchAfterErrorUnlessUser ==
    [][(FirstRefreshFailed /\ inflight' # inflight) => Key]_vars

\* C16, amended: no completion starts a fetch; a PR-files, file-diff or
\* build-log fetch is started only by enter; a full refresh is started only
\* by manual refresh or by a tick once the refresh interval has passed
\* since the last completion of a full refresh, failed or not.
C16_FetchStartedOnlyByUserOrSchedule ==
    [][/\ Completion => started' = started
       /\ (app = "dashboard" /\ running' /\ started' > started)
            => (\/ KeyStep("enter") /\ ~Starts("loadData")
                \/ KeyStep("r") /\ Starts("loadData")
                \/ /\ TickStep
                   /\ Starts("loadData")
                   /\ m'.sinceLastUpdate >= RefreshInterval)]_vars

\* the first full refresh failed and, an interval later, a tick has started
\* the next one
C16_Witness ==
    /\ app = "dashboard" /\ running
    /\ started = 2
    /\ inflight = SetToBag({loadDataCmd})
    /\ m.err.op = "loadData"
    /\ ~m.loading
    /\ m.sinceLastUpdate = RefreshInterval

\* the fetches in flight
FetchesInFlight == BagToSet(inflight) \ {quitCmd}

\* the completion message type of each fetch operation
CompletionType(op) ==
    CASE op = "loadData" -> "DataLoadedMsg"
      [] op = "loadPRFiles" -> "FilesLoadedMsg"
      [] op = "loadFileDiff" -> "DiffLoadedMsg"
      [] op = "loadBuildLogs" -> "LogsLoadedMsg"

\* the messages the fetch c returns, over everything the service can answer
Completions(c) ==
    CASE c.op = "loadData" -> DataMsgs(world)
      [] c.op = "loadPRFiles" ->
            {loadPRFiles(c.id, out) : out \in FileOutcomes(world, c.id)}
      [] c.op = "loadFileDiff" -> {loadFileDiff(c.id, c.file, ok) : ok \in BOOLEAN}
      [] c.op = "loadBuildLogs" -> {loadBuildLogs(c.id, out) : out \in LogOutcomes}

\* the message the fetch c returns when each of its requests fails or
\* exceeds its timeout
TimedOut(c) ==
    CASE c.op = "loadData" ->
            loadData([i \in 1..NumPR |-> Failed], [j \in 1..NumPL |-> Failed])
      [] c.op = "loadPRFiles" -> loadPRFiles(c.id, Failed)
      [] c.op = "loadFileDiff" -> loadFileDiff(c.id, c.file, FALSE)
      [] c.op = "loadBuildLogs" -> loadBuildLogs(c.id, [j \in 1..NumPL |-> Failed])

\* a fetch of the operation op is in flight in the running program
Pending(op) == running /\ \E c \in FetchesInFlight : c.op = op

RECURSIVE ItemsOfSuccessful(_)
ItemsOfSuccessful(out) ==
    IF out = <<>> THEN <<>>
    ELSE (IF Head(out).ok THEN Head(out).items ELSE <<>>) \o ItemsOfSuccessful(Tail(out))

LoadReturned == app = "loadData" /\ inflight = EmptyBag

\* C18: a full refresh asks for every configured pair exactly once, in
\* configuration order, whether or not earlier pairs failed, and its result
\* carries the concatenation, in configuration order, of the items of the
\* pairs that succeeded.
C18_AllPairsAttempted ==
    LoadReturned =>
        /\ world.calls = [i \in 1..(2 * LoadPairsN) |-> i]
        /\ world.result.type = "DataLoadedMsg"
        /\ world.result.pullRequests = ItemsOfSuccessful(world.prOut)
        /\ world.result.builds = ItemsOfSuccessful(world.plOut)

\* the first pair of each list failed and the second answered with items
C18_Witness ==
    /\ LoadReturned
    /\ ~world.prOut[1].ok /\ world.prOut[2].ok /\ world.prOut[2].items # <<>>
    /\ ~world.plOut[1].ok /\ world.plOut[2].ok /\ world.plOut[2].items # <<>>
    /\ world.result.pullRequests # <<>> /\ world.result.builds # <<>>
    /\ world.result.err # NoErr

\* the diff of a file that both commits hold has been computed
ModifiedFileDiffed ==
    app = "diff" /\ world.returned /\ world.pr /\ world.target.ok /\ world.source.ok

\* the lines of a text
LinesOf(text) == {Split(text)[i] : i \in 1..Len(Split(text))}

ContentKinds == {"Added", "Removed", "Context"}

\* the content lines of a diff
ContentLines(diff) == {i \in 1..Len(diff) : diff[i].kind \in ContentKinds}

\* C19: in the diff of a modified file, every Added, Removed or Context
\* line is, after its marker, a whole line of the source or of the target
\* text, never a fragment of one.
C19_WholeLinesOnly ==
    ModifiedFileDiffed =>
        \A i \in ContentLines(world.diff) :
            Tail(world.diff[i].text) \in LinesOf(world.target.items) \cup LinesOf(world.source.items)

\* C20: the diff of a target text and a source text that are identical has
\* no Added and no Removed line: every content line is a Context line that
\* carries a line of the text, for the empty text and for texts with and
\* without a final newline alike.
C20_IdenticalTextsOnlyContext ==
    (ModifiedFileDiffed /\ world.target.items = world.source.items) =>
        /\ \A i \in ContentLines(world.diff) : world.diff[i].kind = "Context"
        /\ \A i \in ContentLines(world.diff) :
               Tail(world.diff[i].text) \in LinesOf(world.source.items)

\* identical texts of two lines with a final newline have been diffed
C20_Witness ==
    /\ ModifiedFileDiffed
    /\ world.target.items = world.source.items
    /\ Len(world.source.items) = MaxText
    /\ world.source.items[MaxText] = NL
    /\ world.source.items[1] # NL
    /\ ContentLines(world.diff) # {}

\* the lines of a text: what stands before each newline, and what follows
\* the last newline when something does
TextLines(text) ==
    IF Split(text)[Len(Split(text))] = <<>>
    THEN Slice(Split(text), 0, Len(Split(text)) - 1)
    ELSE Split(text)

KindLines(diff, kind) == {i \in 1..Len(diff) : diff[i].kind = kind}

\* the diff of a file that the target commit does not hold, or holds empty,
\* and whose source body is not empty, has been computed
NewFileDiffed ==
    /\ app = "diff" /\ world.returned /\ world.pr
    /\ ~world.target.ok \/ world.target.items = <<>>
    /\ world.source.ok /\ world.source.items # <<>>

\* C21: in the new-file case every content line is Added, there are as many
\* Added lines as the source text has lines, also when the source ends with
\* a newline, and the one hunk header carries that count.
C21_NewFileAllAdded ==
    NewFileDiffed =>
        /\ ContentLines(world.diff) = KindLines(world.diff, "Added")
        /\ Cardinality(KindLines(world.diff, "Added")) = Len(TextLines(world.source.items))
        /\ Cardinality(KindLines(world.diff, "Hunk")) = 1
        /\ \A i \in KindLines(world.diff, "Hunk") :
               HasSuffix(world.diff[i].text,
                         <<"+", "1", ",">> \o Itoa(Len(TextLines(world.source.items)))
                             \o <<" ", "@", "@">>)

\* the diff of a file that the source commit does not hold has been computed
DeletedFileDiffed ==
    /\ app = "diff" /\ world.returned /\ world.pr
    /\ world.target.ok /\ ~world.source.ok

\* C22: in the deleted-file case the diff has one hunk header, sized to the
\* old content, and its content lines are Removed lines, one for each line
\* of the target text.
C22_DeletedFileAllRemoved ==
    DeletedFileDiffed =>
        /\ ContentLines(world.diff) = KindLines(world.diff, "Removed")
        /\ Cardinality(KindLines(world.diff, "Removed")) = Len(TextLines(world.target.items))
        /\ Cardinality(KindLines(world.diff, "Hunk")) = 1
        /\ \A i \in KindLines(world.diff, "Hunk") :
               HasPrefix(world.diff[i].text,
                         <<"@", "@", " ", "-", "1", ",">>
                             \o Itoa(Len(TextLines(world.target.items))) \o <<" ">>)

\* the content lines of a diff, in order
RECURSIVE ContentOf(_)
ContentOf(diff) ==
    IF diff = <<>> THEN <<>>
    ELSE (IF Head(diff).kind \in ContentKinds THEN <<Head(diff)>> ELSE <<>>)
             \o ContentOf(Tail(diff))

SpanKind(diff) ==
    CASE diff.Type = "DiffInsert" -> "Added"
      [] diff.Type = "DiffDelete" -> "Removed"
      [] diff.Type = "DiffEqual" -> "Context"

SpanMarker(diff) ==
    CASE diff.Type = "DiffInsert" -> "+"
      [] diff.Type = "DiffDelete" -> "-"
      [] diff.Type = "DiffEqual" -> " "

\* one line for every segment of the spans but the empty segment that
\* follows the last newline of a span
RECURSIVE SegmentsKept(_)
SegmentsKept(diffs) ==
    IF diffs = <<>> THEN <<>>
    ELSE [i \in 1..Len(TextLines(Head(diffs).Text)) |->
             [kind |-> SpanKind(Head(diffs)),
              text |-> <<SpanMarker(Head(diffs))>> \o TextLines(Head(diffs).Text)[i]]]
         \o SegmentsKept(Tail(diffs))

\* C23: when a span of the difference is split into lines, the empty
\* segment after the span's final newline is dropped and every other
\* segment, blank ones inside the span included, is written once, in order.
C23_OnlyFinalEmptySegmentDropped ==
    ModifiedFileDiffed =>
        ContentOf(world.diff) = SegmentsKept(DiffMain(world.target.items, world.source.items))

\* a span of two blank lines that ends with a newline has been written
C23_Witness ==
    /\ ModifiedFileDiffed
    /\ world.target.items = <<"a">>
    /\ world.source.items = <<"a", NL, NL>>
    /\ Len(ContentOf(world.diff)) = 3
    /\ ContentOf(world.diff)[3] = [kind |-> "Added", text |-> <<"+">>]

\* the completion messages that carry a fetch error
ErrorCompletions ==
    {[ZeroMsg EXCEPT !.type = t, !.err = Err(op, 0)] :
        t \in {"DataLoadedMsg", "FilesLoadedMsg", "DiffLoadedMsg", "LogsLoadedMsg"},
        op \in {"loadData", "loadPRFiles", "loadFileDiff", "loadBuildLogs"}}

\* C24: in every state of the running program, consuming a quit event ends
\* the program (Update returns tea.Quit), and consuming any other key, a
\* tick or a completion that carries an error does not.
C24_TerminatesOnlyOnQuit ==
    (app = "dashboard" /\ running) =>
        /\ Update(m, KeyMsg("q")).quit
        /\ \A k \in Keys \ {"q"} : ~Update(m, KeyMsg(k)).quit
        /\ ~Update(m, TickMsg).quit
        /\ \A ms \in ErrorCompletions : ~Update(m, ms).quit

\* the Dashboard shows the pull request tab with the cursor on a pull request
PRHighlighted(mm) ==
    /\ mm.view = "Dashboard" /\ mm.activeTab = 0
    /\ Index(mm.prList) < Len(mm.pullRequests)

\* C25: enter on the pull request tab of the Dashboard with the cursor on a
\* pull request opens PRDetails in that step, for the pull request at the
\* cursor, and starts no fetch; the DataLoadedMsg of a refresh leaves the
\* selected pull request as it is.
C25_EnterSelectsPullRequest ==
    [][/\ (KeyStep("enter") /\ PRHighlighted(m))
            => /\ running'
               /\ m'.view = "PRDetails"
               /\ m'.selectedPR = m.pullRequests[Index(m.prList) + 1]
               /\ m'.selectedPR = m.prList.items[Index(m.prList) + 1]
               /\ inflight' = inflight /\ started' = started
       /\ RefreshAnswered => m'.selectedPR = m.selectedPR]_vars

\* PRDetails shows a pull request that a later refresh dropped from the list
C25_Witness ==
    /\ app = "dashboard" /\ running
    /\ m.view = "PRDetails"
    /\ m.selectedPR # nil
    /\ m.pullRequests # <<>>
    /\ \A i \in 1..Len(m.pullRequests) : m.pullRequests[i] # m.selectedPR

ScrollKeys == {"up", "down"}

\* the model with the scroll offset of the viewport of its view set to zero
WithoutOffset(mm) ==
    CASE mm.view = "FileDiff" -> [mm EXCEPT !.diffViewport.YOffset = 0]
      [] mm.view = "BuildLogs" -> [mm EXCEPT !.logsViewport.YOffset = 0]
      [] mm.view = "PRDetails" -> [mm EXCEPT !.prDetailsViewport.YOffset = 0]
      [] OTHER -> mm

\* C26: a scroll event in the FileDiff, BuildLogs or PRDetails view changes
\* nothing but the scroll offset of that view's viewport: the diff, the
\* logs, the selections, the collections and the content of the viewports
\* are the same after it, and no command is started.
C26_ScrollChangesOnlyOffset ==
    [][\A k \in ScrollKeys :
          (KeyStep(k) /\ m.view \in {"FileDiff", "BuildLogs", "PRDetails"})
              => /\ running'
                 /\ WithoutOffset(m') = WithoutOffset(m)
                 /\ inflight' = inflight /\ started' = started /\ ticks' = ticks]_vars

\* the diff on screen has been scrolled down to its last window
C26_Witness ==
    /\ app = "dashboard" /\ running
    /\ m.view = "FileDiff"
    /\ m.diffViewport.content = m.currentDiff
    /\ m.diffViewport.YOffset = maxYOffset(m.diffViewport)
    /\ m.diffViewport.YOffset > 1

\* C27: drawing a frame is a projection of the state: in any state of the
\* running program, when View has returned every field of the model is
\* what it was.  View does write while it draws (renderPRDetails sets the
\* content of the details viewport), but only fields of its own copy, none
\* of the storage the copy shares with the model; it returns the frame and
\* nothing else, so it starts no command.
C27_ViewLeavesState ==
    (app = "dashboard" /\ running) =>
        /\ AfterView(m) = m
        /\ \A field \in DOMAIN m :
              ViewReceiver(m)[field] # m[field]
              => field \in {"prList", "buildList", "fileList", "diffViewport",
                            "logsViewport", "prDetailsViewport"}

\* View changes the details viewport of its receiver while drawing the
\* selected pull request
C27_Witness ==
    /\ app = "dashboard" /\ running
    /\ m.view = "PRDetails" /\ m.selectedPR # nil
    /\ ViewReceiver(m) # m
    /\ m.prDetailsViewport.content = <<>>

\* the paths for which the language table has neither the extension nor
\* the base name
NotInLanguageTable(path) ==
    /\ ToLower(Ext(path)) \notin DOMAIN languageMap
    /\ ToLower(Base(path)) \notin {<<"m", "a", "k", "e", "f", "i", "l", "e">>,
                                  <<"g", "n", "u", "m", "a", "k", "e", "f", "i", "l", "e">>,
                                  <<"d", "o", "c", "k", "e", "r", "f", "i", "l", "e">>,
                                  <<"j", "e", "n", "k", "i", "n", "s", "f", "i", "l", "e">>}
    /\ ~HasPrefix(ToLower(Base(path)), <<"d", "o", "c", "k", "e", "r", "f", "i", "l", "e", ".">>)

\* C28: for a path whose extension and base name are not in the language
\* table no language is detected and the diff line comes back exactly as
\* given, marker and text; and when tokenising or formatting fails for a
\* known language the line comes back unhighlighted as well.
C28_UnknownOrFailedUnhighlighted ==
    (app = "highlight" /\ world.returned) =>
        /\ NotInLanguageTable(world.path) =>
              /\ world.language = ""
              /\ world.out = world.line
              /\ world.code = world.line
        /\ (~world.tokenised \/ ~world.formatted) =>
              /\ world.out = world.line
              /\ world.code = world.line

C28_Witness ==
    /\ app = "highlight"
    /\ world.returned
    /\ NotInLanguageTable(world.path)
    /\ Ext(world.path) # <<>>
    /\ Len(world.line) > 1
    /\ world.line[1] = "+"
    /\ world.out = world.line

\* C29: a completion that succeeds changes the view only when the view is
\* still the one its fetch was issued from: the changed files only from
\* PRDetails, the diff only from PRFiles, the build logs only from Dashboard.
C29_CompletionMovesOnlyFromOrigin ==
    [][/\ \A c \in LoadPRFilesCmds : \A out \in FileOutcomes(world, c.id) :
            (out.ok /\ DoneStep(c, loadPRFiles(c.id, out)) /\ m'.view # m.view)
            => m.view = "PRDetails"
       /\ \A c \in LoadFileDiffCmds :
            (DoneStep(c, loadFileDiff(c.id, c.file, TRUE)) /\ m'.view # m.view)
            => m.view = "PRFiles"
       /\ \A c \in LoadBuildLogsCmds, out \in LogOutcomes :
            (/\ loadBuildLogs(c.id, out).err = NoErr
             /\ DoneStep(c, loadBuildLogs(c.id, out))
             /\ m'.view # m.view)
            => m.view = "Dashboard"]_vars

\* the pull request whose changed files hold the file f, where every pull
\* request changes files of its own
FilePR(f) == f \div 10

\* C30: in the PRFiles and FileDiff views the changed files the model
\* holds, and the file list shows, are those fetched for the selected pull
\* request, and no diff is requested for a pull request and a file of
\* another pull request.
C30_FilesOfSelectedPR ==
    (app = "dashboard" /\ running) =>
        /\ m.view \in {"PRFiles", "FileDiff"} =>
              /\ \A i \in 1..Len(m.prFiles) : FilePR(m.prFiles[i]) = m.selectedPR
              /\ m.fileList.items = m.prFiles
        /\ \A c \in LoadFileDiffCmds : FilePR(c.file) = c.id

\* C31: in the BuildLogs view the logs on display are those fetched for
\* the selected build: the logs that answer the request for a build
\* selected earlier are not shown under the build selected after it.
C31_LogsOfSelectedBuild ==
    (app = "dashboard" /\ running /\ m.view = "BuildLogs" /\ m.buildLogs # NoLogsAvailable)
        => m.buildLogs[1] = m.selectedBuild

\* C32: the time of the last update moves only when a DataLoadedMsg
\* without an error is consumed: a full refresh that completes with an
\* error leaves it where it was, and so does every message that is not the
\* completion of a full refresh (between ticks the time since it stands
\* still).
C32_LastUpdateOnlyOnSuccess ==
    [][/\ \A prOut \in PROutcomes(world), plOut \in PLOutcomes(world) :
            (/\ loadData(prOut, plOut).err # NoErr
             /\ DataStep(loadData(prOut, plOut)))
            => m'.sinceLastUpdate = m.sinceLastUpdate
       /\ (running' /\ ~RefreshCompleted /\ ~TickStep)
            => m'.sinceLastUpdate = m.sinceLastUpdate]_vars

\* C33: in the PRDetails, PRFiles and FileDiff views a pull request is
\* selected and in the BuildLogs view a build is; and no message unsets a
\* selection that is set.
C33_SelectionSetAndKept ==
    /\ [](app = "dashboard" /\ running =>
            /\ m.view \in {"PRDetails", "PRFiles", "FileDiff"} => m.selectedPR # nil
            /\ m.view = "BuildLogs" => m.selectedBuild # nil)
    /\ [][(app = "dashboard" /\ running') =>
            /\ m.selectedPR # nil => m'.selectedPR # nil
            /\ m.selectedBuild # nil => m'.selectedBuild # nil]_vars

\* both selections are set, the build logs are on display, and a full
\* refresh has since emptied the lists
C33_Witness ==
    /\ app = "dashboard" /\ running
    /\ m.view = "BuildLogs"
    /\ m.selectedBuild # nil
    /\ m.selectedPR # nil
    /\ m.pullRequests = <<>>
    /\ m.builds = <<>>

\* C34: the items of the pull request list, the build list and the file
\* list are, index for index, the pull requests, the builds and the changed
\* files of the model, so that the index handleEnter reads from a list
\* names in the collection the entity the list shows at that index.
C34_ListsMirrorCollections ==
    (app = "dashboard" /\ running) =>
        /\ m.prList.items = m.pullRequests
        /\ m.buildList.items = m.builds
        /\ m.fileList.items = m.prFiles

\* all three collections are held, the changed files after the full
\* refresh that replaced the pull requests
C34_Witness ==
    /\ app = "dashboard" /\ running
    /\ m.view = "PRFiles"
    /\ Len(m.prFiles) = MaxFiles
    /\ Len(m.pullRequests) = 1
    /\ m.selectedPR \notin {m.pullRequests[i] : i \in 1..Len(m.pullRequests)}
    /\ Len(m.builds) > 0
    /\ m.fileList.items = m.prFiles

\* C35: while loading is set a full refresh is in flight, and while
\* loadingLogs is set a build-log fetch is in flight; so once every fetch
\* issued has delivered its completion neither flag is set.
C35_LoadingImpliesInFlight ==
    (app = "dashboard" /\ running) =>
        /\ m.loading => RefreshesInFlight >= 1
        /\ m.loadingLogs => LoadBuildLogsCmds # {}
        /\ inflight = EmptyBag => (~m.loading /\ ~m.loadingLogs)

\* a build-log fetch has failed and a refresh is in flight: the one flag is
\* down, with the error on record, and the other up
C35_Witness ==
    /\ app = "dashboard" /\ running
    /\ m.err = Err("loadBuildLogs", 0)
    /\ ~m.loadingLogs
    /\ LoadBuildLogsCmds = {}
    /\ m.loading
    /\ RefreshesInFlight = 1

\* C36: after Init exactly one tick is pending at all times: consuming a
\* TickMsg schedules one next tick whatever the view, the loading flags and
\* the error are and whether or not it starts a refresh, and a key
\* schedules none.
C36_ExactlyOneTickPending ==
    (app = "dashboard" /\ running) =>
        /\ ticks = 1
        /\ Update(m, TickMsg).tick
        /\ \A k \in Keys : ~Update(m, KeyMsg(k)).tick

\* a tick has started a refresh away from the Dashboard with an error on
\* record, and one tick is pending
C36_Witness ==
    /\ app = "dashboard" /\ running
    /\ ticks = 1
    /\ m.view = "PRDetails"
    /\ m.err # NoErr
    /\ ~m.loading
    /\ RefreshesInFlight >= 1
    /\ m.sinceLastUpdate = RefreshInterval

\* the projects whose log list was fetched and some segment content with
\* it, and the segments fetched of the project i, in server order
LogProjectsWithContent(out) ==
    {i \in 1..Len(out) : out[i].ok /\ \E k \in 1..Len(out[i].items) : out[i].items[k]}

RECURSIVE FetchedSegments(_, _, _)
FetchedSegments(out, i, k) ==
    IF k > Len(out[i].items) THEN <<>>
    ELSE (IF out[i].items[k] THEN <<10 * i + k>> ELSE <<>>) \o FetchedSegments(out, i, k + 1)

\* C37: loadBuildLogs completes with an error exactly when no configured
\* project yielded segment content and the log list request of some
\* project failed; when some project yielded content it completes with the
\* fetched segments, in server order, of the first such project in
\* configuration order and of no other; and when nothing failed and nothing
\* was found it completes with the placeholder.
C37_LogsOfFirstProjectWithContent ==
    (app = "loadBuildLogs" /\ world.returned) =>
        LET out == world.out
            with == LogProjectsWithContent(out)
            failed == {i \in 1..Len(out) : ~out[i].ok}
        IN  /\ world.result.type = "LogsLoadedMsg"
            /\ world.result.err # NoErr <=> (with = {} /\ failed # {})
            /\ with # {} =>
                  \A first \in with :
                      (\A i \in with : first <= i) =>
                          world.result.logs = <<world.build>> \o FetchedSegments(out, first, 1)
            /\ (with = {} /\ failed = {}) => world.result.logs = NoLogsAvailable
            /\ world.result.err # NoErr => world.result.logs = ZeroMsg.logs

\* the first project failed, the second listed segments whose content
\* could not be fetched, the third yielded its second segment only
C37_Witness ==
    /\ app = "loadBuildLogs" /\ world.returned
    /\ ~world.out[1].ok
    /\ world.out[2].ok /\ world.out[2].items = <<FALSE, FALSE>>
    /\ world.out[3].ok /\ world.out[3].items = <<FALSE, TRUE>>
    /\ world.result.logs = <<world.build, 32>>
    /\ world.result.err = NoErr

\* the diff has the header line of a new file, or of a deleted file, after
\* its first line
HasFileHeader(diff, text) ==
    Len(diff) >= 2 /\ diff[2] = [kind |-> "Header", text |-> text]

\* C38: with the pull request details fetched and parsed GetPRFileDiff
\* returns no error: when the target body cannot be fetched it writes the
\* diff of a new file, also when the source body cannot be fetched either,
\* and when only the source body cannot be fetched the diff of a deleted
\* file; it returns an error only when the pull request details fail.
C38_OnlyDetailsFailureIsError ==
    (app = "diff" /\ world.returned) =>
        /\ world.err # NoErr <=> ~world.pr
        /\ (world.pr /\ ~world.target.ok) =>
              /\ HasFileHeader(world.diff, <<"n", "e", "w", " ", "f", "i", "l", "e">>)
              /\ ContentLines(world.diff) = KindLines(world.diff, "Added")
              /\ ContentLines(world.diff) # {}
        /\ (world.pr /\ world.target.ok /\ ~world.source.ok) =>
              /\ HasFileHeader(world.diff,
                               <<"d", "e", "l", "e", "t", "e", "d", " ", "f", "i", "l", "e">>)
              /\ ContentLines(world.diff) = KindLines(world.diff, "Removed")
              /\ ContentLines(world.diff) # {}
        /\ ~world.pr => world.diff = <<>>

\* neither body could be fetched and the diff of a new file was returned
C38_Witness ==
    /\ app = "diff" /\ world.returned /\ world.pr
    /\ ~world.target.ok /\ ~world.source.ok
    /\ world.err = NoErr
    /\ KindLines(world.diff, "Added") # {}

\* C39: formatDiff renders every line GetPRFileDiff wrote as Added as an
\* added line and every line it wrote as Removed as a removed line,
\* whatever the line holds, and renders as headers only lines written as
\* headers.
C39_AddedAndRemovedRenderedAsSuch ==
    (app = "formatDiff" /\ world.returned) =>
        \A i \in 1..Len(world.diff) :
            /\ world.diff[i].kind = "Added" => world.formatted[i].style = "added"
            /\ world.diff[i].kind = "Removed" => world.formatted[i].style = "deleted"
            /\ world.formatted[i].style = "header" => world.diff[i].kind = "Header"

====
